---------------------------- MODULE Spec2Model ----------------------------
(***************************************************************************)
(* Model of the PlasmaGun acquisition programs:                            *)
(*   - the scripts run_manual.py and run_with_sig_gen.py (cadence loop,    *)
(*     periodic backup, final save, oscilloscope shutdown),                *)
(*   - utils/async_measure.py (async_measure and its four device tasks),   *)
(*   - utils/experiments.py (Experiment.run_open_loop).                    *)
(*                                                                         *)
(* Time is counted in ticks of half a second.  time.perf_counter() and     *)
(* time.time() have an arbitrary origin and the code only uses             *)
(* differences, so the clock is re-based at every iteration start:         *)
(* `clock` is the time elapsed since the current iteration's startTime.    *)
(* Only device acquisitions, input commands and time.sleep() consume       *)
(* time.                                                                   *)
(***************************************************************************)
EXTENDS Integers, Sequences, FiniteSets, TLC

VARIABLES
    prog,        \* which program runs: "manual", "siggen" or "openloop"
    cfg,         \* the user options of the script (run_manual.py:35-40)
    pc,          \* position of the main thread of control
    err,         \* the exception that ended the program ("" when none)
    i,           \* the loop index of `for i in range(...)`
    clock,       \* time since the current iteration's startTime
    runTime,     \* the variable runTime of the cadence loop
    slept,       \* argument of the time.sleep() call of this iteration, 0 if none
    meas,        \* the iteration in which the local t/osc_data, wavelengths/intensities were read
    spec_list,   \* run_manual.py:200
    osc_list,    \* run_manual.py:201
    h5,          \* keys "spec" and "osc" of data.h5
    csv,         \* the files f1 (spectra) and f2 (oscilloscope)
    backupLog,   \* loop indices at which the periodic backup block was entered
    oscDev,      \* the name osc: "unset", "None" (TEST), or the device "unopened", "open", "closed"
    status,      \* the keys of osc.status that hold a status other than PICO_OK
    osc,         \* the Oscilloscope instance that set_channels and set_data_buffers work on
    sigGen,      \* number of successful set_signal calls
    nAcq,        \* number of device acquisitions (scripts) or async_measure calls (open loop)
    runOpts,     \* the RunOpts object passed to run_open_loop
    seqs,        \* lengths of power_seq and flow_seq
    am,          \* async_measure: "idle", "waiting" (in await asyncio.wait) or "returned"
    tasks,       \* the four tasks of the current async_measure call
    out,         \* locals of the loop body: Ts, Ts2, Ts3, totalIntensity, ...
    save,        \* the save containers Tsave, Isave, Ts2save, ... of run_open_loop
    badTimes,    \* the list badTimes
    sent,        \* the commands sent to the microcontroller
    files,       \* what run_open_loop persisted: the .npy backup and the CSV export
    prevTime,    \* the variable prevTime of run_open_loop and who assigned it last
    latMax,      \* largest latency of a device task of the current async_measure call
    touched,     \* the tasks of the current async_measure call that operated on their device
    serial       \* the serial port of the microcontroller and the locals of async_get_emb

olVars == <<runOpts, seqs, am, tasks, out, save, badTimes, sent, files>>
scriptVars == <<cfg, meas, spec_list, osc_list, h5, csv, backupLog, oscDev, status, osc, sigGen>>
timeVars == <<clock, runTime, slept>>
ioVars == <<prevTime, latMax, touched, serial>>
vars == <<prog, pc, err, i, nAcq, timeVars, scriptVars, olVars, ioVars>>

---------------------------------------------------------------------------
(* Bounds of the model *)

\* largest n_iterations
MaxIter == 11
\* largest latency (ticks) of one device acquisition
MaxLat == 2

\* largest latency (ticks) of one device task of async_measure
MaxTaskLat == 1
\* largest length of power_seq and of flow_seq
MaxSeqLen == 2
\* largest length of a short data string of the microcontroller
MaxData == 3
\* the count of readline calls saturates here
MaxReads == 3
\* largest length of the lists given to set_channels and set_data_buffers
MaxChannels == 2
\* the constructor arguments single_buff_size and n_buffs of a streaming
\* instance (500 and 10 by default), scaled down
SingleBuffSize == 2
NBuffs == 2
\* the largest pixel offset n_pix get_avg_spatial_temp is called with
MaxPix == 2

(* Program constants *)

\* samplingTime = 1.0 s, in ticks of 0.5 s
samplingTime == 2
\* the backup period of `i%10 == 0`
BackupEvery == 10
\* number of parameters of async_measure(ard, prevTime, osc_instr, spec, runOpts)
AsyncMeasureParams == 5
\* number of arguments of the scripts' call async_measure(spec, osc)
ScriptCallArgs == 2

\* the placeholder of an unavailable temperature (experiments.py:227-229)
TempSentinel == -300
\* the placeholder of an unavailable spectrometer output (experiments.py:240-243)
SpecSentinel == -1
\* Ts2 and Ts3 when spatial temperatures are not collected (async_measure.py:100-101)
NoSpatialTemp == -300

\* channels = [channelA, channelB, channelC]
channels == <<"A", "B", "C">>

Scripts == {"manual", "siggen"}
LoopPcs == {"loop_head", "set_signal", "collect", "append", "backup", "pace"}

---------------------------------------------------------------------------
(* Helpers *)

\* one row of a save container: what it holds and the iteration it was read in
Row(name, src, k) == [row |-> name, src |-> src, acq |-> k]

RECURSIVE ChannelRows(_, _, _)
ChannelRows(chs, src, k) ==
    IF chs = <<>> THEN <<>>
    ELSE <<Row(Head(chs), src, k)>> \o ChannelRows(Tail(chs), src, k)

Unwritten == [written |-> FALSE, rows |-> <<>>]

\* the fields Oscilloscope.__init__ binds (oscilloscope.py:44-51): channels_info,
\* buffers_info and channel_datas are None, buffer_maxes does not exist yet;
\* no call is under way
NoCall == [fn |-> "", left |-> 0, seen |-> <<>>, item |-> [name |-> <<>>, given |-> {}],
           args |-> <<>>]

\* the attributes initialize_streaming binds (oscilloscope.py:430-433), before
\* its first call
NoStream == [nextSample |-> 0, autoStopOuter |-> FALSE, wasCalledBack |-> FALSE,
             complete_buffers |-> <<>>]
\* the streaming state of the device: the samples handed over since
\* ps2000aRunStreaming, whether it stopped, whether it ever called back, and
\* the content of the buffers registered with it
NoDriver == [sent |-> 0, stopped |-> FALSE, called |-> FALSE, buffer |-> <<>>]

NewOsc ==
    [channels_info |-> [none |-> TRUE, v |-> <<>>],
     channel_datas |-> [none |-> TRUE, v |-> <<>>],
     buffers_info |-> [none |-> TRUE, v |-> <<>>],
     buffer_maxes |-> [none |-> TRUE, v |-> <<>>],
     stream |-> NoStream,
     driver |-> NoDriver,
     call |-> NoCall]
Written(rows) == [written |-> TRUE, rows |-> rows]

---------------------------------------------------------------------------
(* The scripts run_manual.py and run_with_sig_gen.py *)

ScriptInit ==
    /\ prog \in Scripts
    /\ cfg \in [TEST : BOOLEAN, async_collection : BOOLEAN, collect_spec : BOOLEAN,
                collect_osc : BOOLEAN, save_backup : BOOLEAN, n_iterations : 0..MaxIter]
    /\ pc = "connect"
    /\ err = ""
    /\ i = 0
    /\ clock = 0 /\ runTime = 0 /\ slept = 0
    /\ meas = [osc |-> -1, spec |-> -1]
    /\ spec_list = <<>> /\ osc_list = <<>>
    /\ h5 = [spec |-> Unwritten, osc |-> Unwritten]
    /\ csv = [spec |-> Unwritten, osc |-> Unwritten]
    /\ backupLog = <<>>
    /\ oscDev = "unset"
    /\ status = {}
    /\ osc = NewOsc
    /\ sigGen = 0
    /\ nAcq = 0

Crash(e) == pc' = "crashed" /\ err' = e

\* lines 116-118: asynchronous collection forces both devices on
Forced(c) ==
    IF c.async_collection
    THEN [c EXCEPT !.collect_osc = TRUE, !.collect_spec = TRUE]
    ELSE c

\* the device calls of osc.open_device() and osc.initialize_device(), in
\* call order, named by the key of osc.status their status is stored under
\* (oscilloscope.py:62, 201, 293, 355, 364)
SetupSteps == <<"openunit", "set_ch", "setBuffer", "trigger", "get_timebase">>

SetupKeys == {SetupSteps[n] : n \in 1..Len(SetupSteps)}

\* the setup steps whose status is passed to assert_pico_ok
\* (oscilloscope.py:63, 202, 294, 373; set_trigger only stores its status)
Asserted == {"openunit", "set_ch", "setBuffer", "get_timebase"}

StepIndex(step) == CHOOSE n \in 1..Len(SetupSteps) : SetupSteps[n] = step

\* the setup of the oscilloscope when the steps of `bad` report a status
\* other than PICO_OK: the first asserted one of them raises, the steps after
\* it are not called
RaisedAt(bad) ==
    LET raising == {StepIndex(step) : step \in bad \cap Asserted}
    IN IF raising = {} THEN 0
       ELSE CHOOSE n \in raising : \A m \in raising : n <= m

\* lines 116-182: force the flags, connect to the spectrometer, open and
\* initialise the oscilloscope (assert_pico_ok raises on a non-OK status)
Connect ==
    /\ prog \in Scripts /\ pc = "connect"
    /\ cfg' = Forced(cfg)
    /\ \E specOk \in BOOLEAN, bad \in SUBSET SetupKeys :
        LET useSpec == cfg'.collect_spec /\ ~cfg'.TEST
            useOsc == cfg'.collect_osc /\ ~cfg'.TEST
            at == RaisedAt(bad)
        IN
        /\ ~specOk => useSpec
        /\ bad # {} => useOsc /\ specOk
        \* a step that is never called reports nothing
        /\ at # 0 => \A step \in bad : StepIndex(step) <= at
        /\ oscDev' = IF ~cfg'.collect_osc \/ ~specOk THEN "unset"
                     ELSE IF cfg'.TEST THEN "None"
                     ELSE IF "openunit" \in bad THEN "unopened"
                     ELSE "open"
        /\ status' = bad
        /\ IF ~specOk THEN Crash("SeaBreezeError")
           ELSE IF at # 0 THEN Crash("PicoError")
           ELSE pc' = "startup" /\ err' = err
    /\ UNCHANGED <<ioVars, olVars, prog, i, nAcq, timeVars, meas, spec_list, osc_list, h5, csv,
                   backupLog, osc, sigGen>>

\* the call async_measure(spec, osc) binds ScriptCallArgs arguments to the
\* AsyncMeasureParams parameters of utils/async_measure.py
CallBinds == ScriptCallArgs = AsyncMeasureParams

\* lines 185-193: the initialising call of async_measure
Startup ==
    /\ prog \in Scripts /\ pc = "startup"
    /\ IF cfg.async_collection /\ ~CallBinds
       THEN Crash("TypeError")
       ELSE pc' = "loop_head" /\ err' = err
    /\ UNCHANGED <<ioVars, olVars, prog, i, nAcq, timeVars, scriptVars>>

\* a script that sets the signal at the start of every iteration after the
\* background
StartsSignalInEveryIteration(k) == k >= 1
\* run_with_sig_gen.py:225: `if i == 1:`
StartsSignal(k) == k = 1

\* `for i in range(int(n_iterations))` and startTime = time.perf_counter().
\* The previous iteration's runTime is never read again before line 260
\* assigns it anew, so the model forgets it here.
LoopHead ==
    /\ prog \in Scripts /\ pc = "loop_head"
    /\ IF i < cfg.n_iterations
       THEN /\ pc' = IF prog = "siggen" /\ StartsSignal(i) THEN "set_signal" ELSE "collect"
            /\ clock' = 0 /\ slept' = 0 /\ runTime' = 0
       ELSE /\ pc' = "final_spec"
            /\ UNCHANGED <<clock, slept, runTime>>
    /\ UNCHANGED <<ioVars, olVars, prog, err, i, nAcq, scriptVars>>

\* run_with_sig_gen.py:225-227: status = osc.set_signal(signal) in iteration 1
SetSignal ==
    /\ prog = "siggen" /\ pc = "set_signal"
    /\ IF oscDev = "unset" THEN Crash("NameError") /\ UNCHANGED <<sigGen, status>>
       ELSE IF oscDev = "None" THEN Crash("AttributeError") /\ UNCHANGED <<sigGen, status>>
       ELSE \E ok \in BOOLEAN :
              IF ok THEN pc' = "collect" /\ err' = err /\ sigGen' = sigGen + 1
                         /\ status' = status
              ELSE Crash("PicoError") /\ sigGen' = sigGen /\ status' = status \cup {"sig_gen"}
    /\ UNCHANGED <<ioVars, olVars, prog, i, nAcq, timeVars, cfg, meas, spec_list, osc_list, h5, csv,
                   backupLog, oscDev, osc>>

\* lines 215-224: the synchronous acquisition (async_collection False)
Collect ==
    /\ prog \in Scripts /\ pc = "collect"
    /\ LET useOsc == cfg.collect_osc /\ ~cfg.TEST
           useSpec == cfg.collect_spec /\ ~cfg.TEST
       IN \E lo \in 0..MaxLat, ls \in 0..MaxLat, outcome \in {"ok", "osc_fail", "spec_fail"} :
            /\ ~useOsc => lo = 0 /\ outcome # "osc_fail"
            /\ ~useSpec => ls = 0 /\ outcome # "spec_fail"
            /\ outcome = "osc_fail" => ls = 0
            /\ clock' = clock + lo + ls
            /\ meas' = [osc |-> IF useOsc /\ outcome # "osc_fail" THEN i ELSE meas.osc,
                        spec |-> IF useSpec /\ outcome = "ok" THEN i ELSE meas.spec]
            /\ nAcq' = nAcq + (IF useOsc THEN 1 ELSE 0)
                            + (IF useSpec /\ outcome # "osc_fail" THEN 1 ELSE 0)
            /\ status' = IF outcome = "osc_fail" THEN status \cup {"run_block"} ELSE status
            /\ IF outcome = "ok" THEN pc' = "append" /\ err' = err
               ELSE IF outcome = "osc_fail" THEN Crash("PicoError")
               ELSE Crash("SeaBreezeError")
    /\ UNCHANGED <<ioVars, olVars, prog, i, runTime, slept, cfg, spec_list, osc_list, h5, csv,
                   backupLog, oscDev, osc, sigGen>>

\* the rows one iteration appends to osc_list (run_manual.py:227-238,
\* run_with_sig_gen.py:247-260: the time row only in iteration 0)
OscRows(p, test, k, acq) ==
    LET src == IF test THEN "random" ELSE "device"
        tag == IF test THEN k ELSE acq
        timeRow == IF p = "manual" \/ k = 0 THEN <<Row("t", src, tag)>> ELSE <<>>
    IN timeRow \o ChannelRows(channels, src, tag)

\* the rows one iteration appends to spec_list (run_manual.py:239-245,
\* run_with_sig_gen.py:261-269: the wavelengths only in iteration 0)
SpecRows(p, test, k, acq) ==
    LET src == IF test THEN "random" ELSE "device"
        tag == IF test THEN k ELSE acq
        waveRow == IF p = "manual" \/ k = 0 THEN <<Row("wavelengths", src, tag)>> ELSE <<>>
    IN waveRow \o <<Row("intensities", src, tag)>>

\* lines 226-245: append the data to the save containers
AppendData ==
    /\ prog \in Scripts /\ pc = "append"
    /\ osc_list' = IF cfg.collect_osc
                   THEN osc_list \o OscRows(prog, cfg.TEST, i, meas.osc)
                   ELSE osc_list
    /\ spec_list' = IF cfg.collect_spec
                    THEN spec_list \o SpecRows(prog, cfg.TEST, i, meas.spec)
                    ELSE spec_list
    /\ pc' = "backup"
    /\ UNCHANGED <<ioVars, olVars, prog, err, i, nAcq, timeVars, cfg, meas, h5, csv, backupLog,
                   oscDev, status, osc, sigGen>>

\* a backup at the end of every block of ten instead of at its start
BackupDueLate(save_backup, k) == save_backup /\ ((k + 1) % BackupEvery = 0)

\* `save_backup and (i%10 == 0)`
BackupDue(save_backup, k) == save_backup /\ (k % BackupEvery = 0)

\* a stack that loses the rows appended last
StackDropsLast(list) == IF list = <<>> THEN list ELSE SubSeq(list, 1, Len(list) - 1)

\* np.vstack(list) stacks every row of the list
Stack(list) == list

\* lines 247-257: save backup files of data
Backup ==
    /\ prog \in Scripts /\ pc = "backup"
    /\ IF BackupDue(cfg.save_backup, i)
       THEN /\ h5' = [spec |-> IF cfg.collect_spec THEN Written(Stack(spec_list)) ELSE h5.spec,
                      osc |-> IF cfg.collect_osc THEN Written(Stack(osc_list)) ELSE h5.osc]
            /\ backupLog' = Append(backupLog, i)
       ELSE UNCHANGED <<h5, backupLog>>
    /\ pc' = "pace"
    /\ UNCHANGED <<ioVars, olVars, prog, err, i, nAcq, timeVars, cfg, meas, spec_list, osc_list, csv,
                   oscDev, status, osc, sigGen>>

\* sleeping the whole period instead of its remainder
PauseTimeWholePeriod(rt) == IF rt < samplingTime THEN samplingTime ELSE 0

\* lines 262-267: the argument of time.sleep(), 0 when the loop does not sleep
PauseTime(rt) == IF rt < samplingTime THEN samplingTime - rt ELSE 0

\* a loop that steps over an index
NextIndexSkips(k) == k + 2

\* the loop variable's next value
NextIndex(k) == k + 1

\* lines 259-267: measure the iteration and pause for the rest of the period
Pace ==
    /\ prog \in Scripts /\ pc = "pace"
    /\ runTime' = clock
    /\ slept' = PauseTime(runTime')
    /\ clock' = clock + slept'
    /\ i' = NextIndex(i)
    /\ pc' = "loop_head"
    /\ UNCHANGED <<ioVars, olVars, prog, err, nAcq, scriptVars>>

\* lines 270-276: final save of the spectrometer data (np.vstack raises
\* ValueError on an empty list)
FinalSpec ==
    /\ prog \in Scripts /\ pc = "final_spec"
    /\ IF cfg.collect_spec /\ spec_list = <<>>
       THEN Crash("ValueError") /\ UNCHANGED <<csv, h5>>
       ELSE /\ pc' = "final_osc" /\ err' = err
            /\ IF cfg.collect_spec
               THEN /\ csv' = [csv EXCEPT !.spec = Written(Stack(spec_list))]
                    /\ h5' = [h5 EXCEPT !.spec = Written(Stack(spec_list))]
               ELSE UNCHANGED <<csv, h5>>
    /\ UNCHANGED <<ioVars, olVars, prog, i, nAcq, timeVars, cfg, meas, spec_list, osc_list, backupLog,
                   oscDev, status, osc, sigGen>>

\* lines 278-284: final save of the oscilloscope data
FinalOsc ==
    /\ prog \in Scripts /\ pc = "final_osc"
    /\ IF cfg.collect_osc /\ osc_list = <<>>
       THEN Crash("ValueError") /\ UNCHANGED <<csv, h5>>
       ELSE /\ pc' = "close" /\ err' = err
            /\ IF cfg.collect_osc
               THEN /\ csv' = [csv EXCEPT !.osc = Written(Stack(osc_list))]
                    /\ h5' = [h5 EXCEPT !.osc = Written(Stack(osc_list))]
               ELSE UNCHANGED <<csv, h5>>
    /\ UNCHANGED <<ioVars, olVars, prog, i, nAcq, timeVars, cfg, meas, spec_list, osc_list, backupLog,
                   oscDev, status, osc, sigGen>>

\* lines 286-287: osc.stop_and_close_device()
Close ==
    /\ prog \in Scripts /\ pc = "close"
    /\ IF cfg.collect_osc /\ ~cfg.TEST
       THEN \E ok \in BOOLEAN :
              IF ok THEN pc' = "done" /\ err' = err /\ oscDev' = "closed" /\ status' = status
              ELSE Crash("PicoError") /\ oscDev' = oscDev /\ status' = status \cup {"stop"}
       ELSE pc' = "done" /\ err' = err /\ UNCHANGED <<oscDev, status>>
    /\ UNCHANGED <<ioVars, olVars, prog, i, nAcq, timeVars, cfg, meas, spec_list, osc_list, h5, csv,
                   backupLog, osc, sigGen>>

---------------------------------------------------------------------------
(* Values of the open-loop experiment.  A Python value is None or a number; *)
(* a task result is None or a list of values.                              *)

Val(n) == [none |-> FALSE, v |-> n]
ValNone == [none |-> TRUE, v |-> 0]
Res(list) == [none |-> FALSE, v |-> list]
ResNone == [none |-> TRUE, v |-> <<>>]

\* what device d delivers as field f of its m-th measurement (m = 0 is the
\* initial measurement, m = k + 1 the measurement of iteration k)
Reading(d, m, f) == Val(1000 * d + 10 * m + f)

TaskIds == 0..3
NewTask == [st |-> "pending", res |-> ResNone]
NoTask == [st |-> "none", res |-> ResNone]
Finished(t) == t.st \in {"done", "raised", "cancelled"}

ContainerNames == {"Tsave", "Isave", "Ts2save", "Ts3save", "waveSave", "specSave",
                   "meanShiftSave", "oscSave", "ArdSave"}
EmptyCell == [set |-> FALSE, val |-> ValNone]
Cell(v) == [set |-> TRUE, val |-> v]
Unallocated == [alloc |-> FALSE, cells |-> <<>>]
\* np.empty((Niter, ...)): Niter cells with no defined content
Allocated(n) == [alloc |-> TRUE, cells |-> [k \in 1..n |-> EmptyCell]]
\* container[k] = v for the 0-based index k
Store(c, k, v) == [c EXCEPT !.cells[k + 1] = Cell(v)]

NoLocals == [Ts |-> ValNone, Ts2 |-> ValNone, Ts3 |-> ValNone, totalIntensity |-> ValNone,
             intensitySpectrum |-> ValNone, wavelengths |-> ValNone, meanShift |-> ValNone]

\* the serial port before async_get_emb has read from it: the data string of
\* the frame the microcontroller emitted last, the bit the link flipped in it
\* (<<>> when none), the bytes readline returned last, the number of
\* readline calls and the number of lines that passed is_line_valid
NoSerial ==
    [kind |-> "none", frame |-> <<>>, flip |-> <<>>, line |-> <<>>, reads |-> 0, lines |-> 0]

---------------------------------------------------------------------------
(* utils/arduino.py: the CRC-framed lines of the microcontroller.  A line  *)
(* is a sequence of bytes; a decoded line is a sequence of ASCII codes.    *)

Comma == 44
NUL == 0
Zero == 48
Nine == 57
Plus == 43
Minus == 45
Underscore == 95
\* the characters str.strip() and int() treat as whitespace, in ASCII
Whitespace == {9, 10, 11, 12, 13, 28, 29, 30, 31, 32}
\* the ASCII characters that float() allows and int() does not: . e E and
\* the letters of inf, infinity and nan
FloatOnly == {46, 69, 101, 65, 70, 73, 78, 84, 89, 97, 102, 105, 110, 116, 121}
IsDigit(c) == c >= Zero /\ c <= Nine

RECURSIVE XorBits(_, _, _)
XorBits(a, b, n) ==
    IF n = 0 THEN 0
    ELSE (((a % 2) + (b % 2)) % 2) + 2 * XorBits(a \div 2, b \div 2, n - 1)
XorTable == [a \in 0..255 |-> [b \in 0..255 |-> XorBits(a, b, 8)]]
\* a ^ b on bytes
Xor(a, b) == XorTable[a][b]

\* the reflected polynomial of crc-8-maxim (x^8 + x^5 + x^4 + 1)
MaximPoly == 140
RECURSIVE CrcShift(_, _)
CrcShift(c, n) ==
    IF n = 0 THEN c
    ELSE CrcShift(IF c % 2 = 1 THEN Xor(c \div 2, MaximPoly) ELSE c \div 2, n - 1)
\* the table of the table-driven CRC
CrcTable == [b \in 0..255 |-> CrcShift(b, 8)]

\* the CRC of the bytes, starting from the byte c: one table look-up per byte
RECURSIVE CrcFrom(_, _)
CrcFrom(c, bytes) ==
    IF c \notin 0..255 \/ bytes = <<>> THEN c
    ELSE CrcFrom(CrcTable[Xor(c, Head(bytes))], Tail(bytes))
\* a checksum that only counts the bytes
crc8_ByteCount(bytes) == Len(bytes) % 256
\* crc8 = crcmod.predefined.mkCrcFun('crc-8-maxim'): initial value 0, reflected,
\* no final xor
crc8(bytes) == CrcFrom(0, bytes)

\* the index of the first comma of s, 0 when it has none
RECURSIVE FirstComma(_, _)
FirstComma(s, k) ==
    IF k > Len(s) THEN 0 ELSE IF s[k] = Comma THEN k ELSE FirstComma(s, k + 1)

\* line.split(',')
RECURSIVE Split(_)
Split(s) ==
    LET p == FirstComma(s, 1)
    IN IF p = 0 THEN <<s>>
       ELSE <<SubSeq(s, 1, p - 1)>> \o Split(SubSeq(s, p + 1, Len(s)))

\* ','.join(fields)
RECURSIVE Join(_)
Join(fields) ==
    IF fields = <<>> THEN <<>>
    ELSE IF Len(fields) = 1 THEN fields[1]
    ELSE fields[1] \o <<Comma>> \o Join(Tail(fields))

RECURSIVE StripLeft(_)
StripLeft(s) == IF s # <<>> /\ Head(s) \in Whitespace THEN StripLeft(Tail(s)) ELSE s
RECURSIVE StripRight(_)
StripRight(s) ==
    IF s # <<>> /\ s[Len(s)] \in Whitespace THEN StripRight(SubSeq(s, 1, Len(s) - 1)) ELSE s
Strip(s) == StripLeft(StripRight(s))

\* the value of a string of digits and underscores
RECURSIVE DigitsValue(_, _)
DigitsValue(s, acc) ==
    IF s = <<>> THEN acc
    ELSE IF Head(s) = Underscore THEN DigitsValue(Tail(s), acc)
    ELSE DigitsValue(Tail(s), 10 * acc + (Head(s) - Zero))

\* digits, single underscores allowed between them
DigitGroup(s) ==
    /\ s # <<>>
    /\ \A k \in 1..Len(s) : IsDigit(s[k]) \/ s[k] = Underscore
    /\ IsDigit(s[1]) /\ IsDigit(s[Len(s)])
    /\ \A k \in 1..(Len(s) - 1) : ~(s[k] = Underscore /\ s[k + 1] = Underscore)

\* int(s) of an ASCII string: surrounding whitespace, an optional sign,
\* digits; ok is FALSE where int raises ValueError
IntOf(s) ==
    LET t == Strip(s)
        signed == t # <<>> /\ Head(t) \in {Plus, Minus}
        body == IF signed THEN Tail(t) ELSE t
    IN IF DigitGroup(body)
       THEN [ok |-> TRUE,
             v |-> IF signed /\ Head(t) = Minus THEN 0 - DigitsValue(body, 0)
                   ELSE DigitsValue(body, 0)]
       ELSE [ok |-> FALSE, v |-> 0]

\* float(s) of an ASCII string without the characters of FloatOnly: it
\* parses what int parses, to the same value
FloatOf(s) == IntOf(s)

\* str(n) of a natural number
RECURSIVE Str(_)
Str(n) == IF n < 10 THEN <<Zero + n>> ELSE Str(n \div 10) \o <<Zero + (n % 10)>>

\* crc_check without the NUL byte
crc_check_NoNul(data, crc) == crc = crc8(data)
\* crc_check(data, crc): crc8 of data followed by one NUL byte
crc_check(data, crc) == crc = crc8(data \o <<NUL>>)

\* is_line_valid(line): "True", "False" or the exception int() raises
is_line_valid(line) ==
    LET l == Split(line)
        crc == IntOf(l[Len(l)])
        data == Join(SubSeq(l, 1, Len(l) - 1))
    IN IF ~crc.ok THEN "ValueError"
       ELSE IF crc_check(data, crc.v) THEN "True" ELSE "False"

---------------------------------------------------------------------------
(* utils/async_measure.py *)

\* the return value of async_get_temp in the m-th measurement
async_get_temp(ro, m) ==
    IF ro.collectData
    THEN Res(<<Reading(1, m, 0),
               IF ro.collectSpatialTemp THEN Reading(1, m, 1) ELSE Val(NoSpatialTemp),
               IF ro.collectSpatialTemp THEN Reading(1, m, 2) ELSE Val(NoSpatialTemp)>>)
    ELSE ResNone

\* the return value of async_get_spectra: [totalIntensity, intensitySpectrum,
\* wavelengths, meanShift]
async_get_spectra(ro, m) ==
    IF ro.collectData
    THEN Res(<<Reading(2, m, 0), Reading(2, m, 1),
               IF ro.collectEntireSpectra THEN Reading(2, m, 2) ELSE ValNone,
               Reading(2, m, 3)>>)
    ELSE ResNone

\* an oscilloscope coroutine that measures whatever its flag says
async_get_osc_unguarded(ro, m) == Res(<<Reading(3, m, 0)>>)

\* the return value of async_get_osc: [Vrms, Irms, Prms]
async_get_osc(ro, m) ==
    IF ro.collectOscMeas THEN Res(<<Reading(3, m, 0)>>) ELSE ResNone

\* the return value of async_get_emb: [timeStamp, Is, ...]
async_get_emb(ro, m) ==
    IF ro.collectEmbedded THEN Res(<<Reading(4, m, 0), Reading(4, m, 1)>>) ELSE ResNone

\* the coroutine of task k: 0 thermal camera, 1 spectrometer, 2 oscilloscope,
\* 3 embedded (async_measure.py:44-47)
Coroutine(k, ro, m) ==
    IF k = 0 THEN async_get_temp(ro, m)
    ELSE IF k = 1 THEN async_get_spectra(ro, m)
    ELSE IF k = 2 THEN async_get_osc(ro, m)
    ELSE async_get_emb(ro, m)

\* whether the coroutine of task k touches its device
DeviceUsed(k, ro) ==
    IF k \in {0, 1} THEN ro.collectData
    ELSE IF k = 2 THEN ro.collectOscMeas
    ELSE ro.collectEmbedded

\* how a coroutine that touches its device can end: it returns; the thermal
\* camera, the spectrometer and the oscilloscope call can raise (q.get(True, 500)
\* raises queue.Empty when no frame arrives in time); async_get_temp calls
\* exit(1) when the frame is None; async_get_emb catches every Exception
Outcomes(k, ro) ==
    IF ~DeviceUsed(k, ro) THEN {"return"}
    ELSE IF k = 0 THEN {"return", "raise", "exit"}
    ELSE IF k = 3 THEN {"return"}
    ELSE {"return", "raise"}

Measuring == pc \in {"ol_init_measure", "ol_measure"}
\* a loop that goes on without reading the tasks' results
AfterMeasureSkipsAssembly == IF pc = "ol_init_measure" THEN "ol_init_read" ELSE "ol_send"
AfterMeasure == IF pc = "ol_init_measure" THEN "ol_init_read" ELSE "ol_assemble"

\* lines 44-49: create the four tasks, then await asyncio.wait(tasks)
AM_Start ==
    /\ prog = "openloop" /\ Measuring /\ am # "waiting"
    /\ tasks' = [k \in TaskIds |-> NewTask]
    /\ am' = "waiting"
    /\ nAcq' = nAcq + 1
    /\ latMax' = 0
    /\ touched' = {}
    /\ UNCHANGED <<prevTime, serial, prog, pc, err, i, timeVars, scriptVars, runOpts, seqs,
                   out, save, badTimes, sent, files>>

\* the event loop runs the tasks in creation order; no coroutine awaits, so
\* each runs to its end in one step.  An Exception is stored in the task;
\* SystemExit is stored and re-raised out of run_until_complete.  The clock
\* counts from an iteration's startTime, so it does not run during the
\* initial measurement, which precedes the first iteration.
TaskRun(k) ==
    /\ prog = "openloop" /\ Measuring /\ am = "waiting"
    /\ tasks[k].st = "pending"
    /\ \A j \in TaskIds : j < k => tasks[j].st # "pending"
    /\ \E outcome \in Outcomes(k, runOpts), lat \in 0..MaxTaskLat :
        /\ (~DeviceUsed(k, runOpts) \/ outcome # "return") => lat = 0
        /\ clock' = IF pc = "ol_measure" THEN clock + lat ELSE clock
        /\ tasks' = [tasks EXCEPT ![k] =
                        IF outcome = "return"
                        THEN [st |-> "done", res |-> Coroutine(k, runOpts, nAcq - 1)]
                        ELSE [st |-> "raised", res |-> ResNone]]
        /\ latMax' = IF pc = "ol_measure" /\ lat > latMax THEN lat ELSE latMax
        /\ touched' = IF DeviceUsed(k, runOpts) THEN touched \cup {k} ELSE touched
        /\ IF outcome = "exit" THEN Crash("SystemExit") ELSE UNCHANGED <<pc, err>>
    /\ UNCHANGED <<prevTime, serial, prog, i, nAcq, runTime, slept, scriptVars, runOpts,
                   seqs, am, out, save, badTimes, sent, files>>

\* asyncio.wait(tasks, return_when=FIRST_COMPLETED)
WaitOverFirstCompleted(ts) == \E k \in TaskIds : Finished(ts[k])

\* asyncio.wait(tasks) with the default return_when=ALL_COMPLETED and no timeout
WaitOver(ts) == \A k \in TaskIds : Finished(ts[k])

\* lines 50-56: the await ends, async_measure returns tasks and runTime
AM_Return ==
    /\ prog = "openloop" /\ Measuring /\ am = "waiting"
    /\ WaitOver(tasks)
    /\ am' = "returned"
    /\ pc' = AfterMeasure
    /\ UNCHANGED <<ioVars, prog, err, i, nAcq, timeVars, scriptVars, runOpts, seqs, tasks, out,
                   save, badTimes, sent, files>>

---------------------------------------------------------------------------
(* async_get_emb, line by line.  The microcontroller emits frames: a data  *)
(* string followed by a comma and the decimal CRC of the data string and   *)
(* one NUL byte.  readline delivers a frame intact or with one bit         *)
(* flipped, or raises.  The passes of the loop share no state, so the line *)
(* after a corrupted one is taken intact.  is_line_valid is the function   *)
(* of utils/arduino.py.  The time the reads take is not counted here.      *)

\* the characters of the short data strings
DataAlphabet == {Zero + 1, Comma}
RECURSIVE StringsOver(_, _)
StringsOver(alphabet, n) ==
    IF n = 0 THEN {<<>>}
    ELSE LET shorter == StringsOver(alphabet, n - 1)
         IN shorter \cup {<<c>> \o t : c \in alphabet, t \in {u \in shorter : Len(u) = n - 1}}
ShortData == StringsOver(DataAlphabet, MaxData)
\* a frame of 15 fields, field k (from 0) holding the number 10 + k
FullFrame == Join([k \in 1..15 |-> Str(9 + k)])
DataStrings == ShortData \cup {FullFrame}

\* readline returns a line with its terminator
Newline == 10
\* the line the microcontroller emits for the data string d
Encode(d) == d \o <<Comma>> \o Str(crc8(d \o <<NUL>>)) \o <<Newline>>
\* the line with bit number bit of its byte number pos flipped
FlipBit(line, pos, bit) == [line EXCEPT ![pos] = Xor(@, 2 ^ bit)]

\* what one call of readline can do; a line ends at its terminator, so the
\* flipped bit is one before it
Intact == {[kind |-> "intact", frame |-> d, flip |-> <<>>, line |-> Encode(d)] :
              d \in DataStrings}
Flipped == UNION {{[kind |-> "flipped", frame |-> d, flip |-> <<pos, bit>>,
                    line |-> FlipBit(Encode(d), pos, bit)] :
                        pos \in 1..(Len(Encode(d)) - 1), bit \in 0..7} : d \in DataStrings}
Failing == {[kind |-> "raised", frame |-> <<>>, flip |-> <<>>, line |-> <<>>]}
Deliveries == Intact \cup Flipped \cup Failing

\* lines 222-235: the index in data of each float() call after timeStamp,
\* in the order of the calls, and the local each one assigns
FieldOrder == <<1, 2, 3, 4, 5, 6, 7, 8, 9, 10, 11, 13, 14>>
LocalOrder == <<"V", "f", "q", "dsep", "Dc", "Is", "V_emb", "T_emb", "I_emb",
                "x_pos", "y_pos", "Pset", "P_emb">>
\* an array in the order of the float() calls
ReturnOrderAsParsed == <<"timeStamp">> \o LocalOrder
\* line 246: the order of the returned array, U = [V, f, q] and
\* elec = [V_emb, I_emb] spliced in
ReturnOrder == <<"timeStamp", "Is", "V", "f", "q", "x_pos", "y_pos", "dsep", "T_emb",
                 "P_emb", "Pset", "Dc", "V_emb", "I_emb">>
\* utils/experiments.py, line 388: the columns of the embedded-data export
EmbHeader == <<"t_emb", "Isemb", "Vp2p", "f", "q", "x_pos", "y_pos", "dsep", "T_emb",
               "P_emb", "Pset", "duty", "V_emb", "I_emb">>
\* lines 237-238: the locals that reach the array only through U and elec
ViaList == {"V", "f", "q", "V_emb", "I_emb"}

\* the float() call number j succeeds: data has the field and it parses
StepOk(data, j) ==
    /\ FieldOrder[j] + 1 <= Len(data)
    /\ FloatOf(data[FieldOrder[j] + 1]).ok
\* how many of the float() calls of lines 222-235 succeed before one raises
RECURSIVE StepsDone(_, _)
StepsDone(data, j) ==
    IF j > Len(FieldOrder) THEN Len(FieldOrder)
    ELSE IF StepOk(data, j) THEN StepsDone(data, j + 1)
    ELSE j - 1

\* the value of a name of the returned array after n of the calls succeeded:
\* the field's value when its assignment was reached, else the default of
\* lines 196-205
Returned(data, name, n) ==
    IF name = "timeStamp" THEN Val(FloatOf(data[1]).v)
    ELSE LET j == CHOOSE k \in 1..Len(LocalOrder) : LocalOrder[k] = name
             reached == IF name \in ViaList THEN n = Len(FieldOrder) ELSE n >= j
         IN IF reached THEN Val(FloatOf(data[FieldOrder[j] + 1]).v) ELSE Val(0)

\* a test that takes a line only when its timestamp is later than prevTime
AcceptsIfNewer(timeStamp, prevT) == timeStamp > prevT
\* line 218: `if True:` stands where the comparison of the line's timestamp
\* with prevTime (line 219, commented out) stood
Accepts(timeStamp, prevT) == TRUE

\* the values of the argument prevTime: the default of run_open_loop and the
\* timestamp of an earlier sample, later than that of the frames read
PrevTimes == {0, 11}

\* one pass of `while run:` (lines 209-243) on the bytes readline returned,
\* in a call with the argument prevTime = prevT:
\* whether the loop ends, the exception raised in the pass and the array
\* line 246 returns when the loop ends
EmbPass(bytes, prevT) ==
    IF \E k \in 1..Len(bytes) : bytes[k] >= 128
    THEN [ret |-> FALSE, e |-> "UnicodeDecodeError", sample |-> <<>>]
    ELSE LET valid == is_line_valid(bytes)
             data == Split(bytes)
             n == StepsDone(data, 1)
         IN IF valid = "ValueError"
            THEN [ret |-> FALSE, e |-> "ValueError", sample |-> <<>>]
            ELSE IF valid = "False"
            THEN [ret |-> FALSE, e |-> "", sample |-> <<>>]
            ELSE IF ~FloatOf(data[1]).ok
            THEN [ret |-> FALSE, e |-> "ValueError", sample |-> <<>>]
            ELSE IF ~Accepts(FloatOf(data[1]).v, prevT)
            THEN [ret |-> FALSE, e |-> "", sample |-> <<>>]
            ELSE [ret |-> TRUE,
                  e |-> IF n = Len(FieldOrder) THEN ""
                        ELSE IF FieldOrder[n + 1] + 1 > Len(data) THEN "IndexError"
                        ELSE "ValueError",
                  sample |-> [k \in 1..Len(ReturnOrder) |-> Returned(data, ReturnOrder[k], n)]]

\* every string that reaches float() is one FloatOf models
FloatModelled(bytes) ==
    (\A k \in 1..Len(bytes) : bytes[k] < 128) /\ is_line_valid(bytes) = "True"
        => \A k \in 1..Len(bytes) : bytes[k] \notin FloatOnly

\* an except clause for the exceptions of the serial port only
CaughtSerialOnly(e) == e = "SerialException"
\* line 241: `except Exception` catches every exception of the pass
Caught(e) == TRUE

\* a loop that gives up after two lines
RetriesTwice(n) == n < 2
\* line 209: `while run:` has no bound on the number of passes
Retries(n) == TRUE

Saturated(n) == IF n < MaxReads THEN n + 1 ELSE MaxReads

\* the pass of the loop on each thing readline can do
PassesWith(prevT) ==
    [a \in Deliveries |->
        IF a.kind = "raised" THEN [ret |-> FALSE, e |-> "SerialException", sample |-> <<>>]
        ELSE EmbPass(a.line, prevT)]
\* in a call with the default prevTime of run_open_loop
Passes == PassesWith(0)
\* in a call with a later prevTime
PassesLater == [prevT \in PrevTimes \ {0} |-> PassesWith(prevT)]

\* one pass of the loop of async_get_emb with collectEmbedded true
EmbRead ==
    /\ prog = "openloop" /\ pc = "ol_measure" /\ am = "waiting"
    /\ runOpts.collectEmbedded
    /\ tasks[3].st = "pending"
    /\ \A j \in TaskIds : j < 3 => tasks[j].st # "pending"
    /\ \E a \in Deliveries :
        LET pass == IF prevTime.val.v = 0 THEN Passes[a]
                    ELSE PassesLater[prevTime.val.v][a]
            reads == Saturated(serial.reads)
        IN
        /\ serial.kind = "flipped" => a.kind # "flipped"
        /\ serial' = [kind |-> a.kind, frame |-> a.frame, flip |-> a.flip, line |-> a.line,
                      reads |-> reads,
                      lines |-> IF a.kind = "raised" THEN serial.lines
                                ELSE Saturated(serial.lines)]
        /\ tasks' = [tasks EXCEPT ![3] =
                        IF pass.e # "" /\ ~Caught(pass.e)
                        THEN [st |-> "raised", res |-> ResNone]
                        ELSE IF pass.ret THEN [st |-> "done", res |-> Res(pass.sample)]
                        ELSE IF ~Retries(reads)
                        THEN [st |-> "done", res |-> ResNone]
                        ELSE @]
        /\ touched' = touched \cup {3}
    /\ UNCHANGED <<prevTime, latMax, prog, pc, err, i, nAcq, timeVars, scriptVars, runOpts,
                   seqs, am, out, save, badTimes, sent, files>>

---------------------------------------------------------------------------
(* utils/experiments.py: Experiment.run_open_loop *)

\* a loop that reaches down to the export of the data
OLLoopPcsWithExport ==
    {"ol_loop_head", "ol_measure", "ol_assemble", "ol_send", "ol_pace", "ol_export"}

\* lines 213-285: the statements of the loop
OLLoopPcs == {"ol_loop_head", "ol_measure", "ol_assemble", "ol_send", "ol_pace"}

FlagNames == {"collectData", "collectSpatialTemp", "collectEntireSpectra", "collectOscMeas",
              "collectEmbedded", "saveData", "saveSpatialTemp", "saveSpectra",
              "saveOscMeas", "saveEmbMeas"}

\* an iteration for every power input
NiterOfPower(sq) == sq.power

\* lines 128-138: the number of iterations
Niter(sq) ==
    IF sq.power > sq.flow THEN sq.flow
    ELSE IF sq.flow > sq.power THEN sq.power
    ELSE sq.power

NoFiles == [npy |-> [written |-> FALSE, data |-> <<>>, badTimes |-> <<>>],
            csv |-> {}]

OLInit ==
    /\ prog = "openloop"
    /\ runOpts \in [FlagNames -> BOOLEAN]
    /\ seqs \in [power : 1..MaxSeqLen, flow : 1..MaxSeqLen]
    /\ pc = "ol_init_measure"
    /\ err = ""
    /\ i = 0
    /\ clock = 0 /\ runTime = 0 /\ slept = 0
    /\ nAcq = 0
    /\ am = "idle"
    /\ tasks = [k \in TaskIds |-> NoTask]
    /\ out = NoLocals
    /\ save = [n \in ContainerNames |-> Unallocated]
    /\ badTimes = [alloc |-> FALSE, list |-> <<>>]
    /\ sent = <<>>
    /\ files = NoFiles

\* task.result() re-raises the exception stored in the task
Raised(t) == t.st = "raised"

\* lines 176-181: the exception raised while reading the initial measurement
InitReadError(ts) ==
    IF Raised(ts[0]) THEN "DeviceError"
    ELSE IF ts[0].res.none THEN "TypeError"
    ELSE IF Raised(ts[1]) THEN "DeviceError"
    ELSE IF ts[1].res.none THEN "TypeError"
    ELSE IF Raised(ts[2]) THEN "DeviceError"
    ELSE IF Raised(ts[3]) THEN "DeviceError"
    ELSE ""

\* lines 174-181: initial measurement to get data sizes
OL_InitRead ==
    /\ prog = "openloop" /\ pc = "ol_init_read"
    /\ IF InitReadError(tasks) = ""
       THEN pc' = "ol_alloc" /\ err' = err
       ELSE Crash(InitReadError(tasks))
    /\ UNCHANGED <<ioVars, prog, i, nAcq, timeVars, scriptVars, olVars>>

\* line 193: len(specOut[2]) with wavelengths None
AllocError(ro, ts) ==
    IF ro.saveSpectra /\ ~ts[1].res.none /\ ts[1].res.v[3].none THEN "TypeError" ELSE ""

\* lines 184-210: the containers allocated for the run
AllocNames(ro, ts) ==
    (IF ro.saveData THEN {"Tsave", "Isave"} ELSE {})
    \cup (IF ro.saveSpatialTemp THEN {"Ts2save", "Ts3save"} ELSE {})
    \cup (IF AllocError(ro, ts) # "" THEN {}
          ELSE (IF ro.saveSpectra /\ ~ts[1].res.none
                THEN {"waveSave", "specSave", "meanShiftSave"} ELSE {})
               \cup (IF ro.saveOscMeas /\ ~ts[2].res.none THEN {"oscSave"} ELSE {})
               \cup (IF ro.saveEmbMeas /\ ~ts[3].res.none THEN {"ArdSave"} ELSE {}))

\* lines 198, 204, 210: a save flag is switched off when its device gave nothing
AfterAlloc(ro, ts) ==
    [ro EXCEPT !["saveSpectra"] = @ /\ ~ts[1].res.none,
               !["saveOscMeas"] = @ /\ ~ts[2].res.none,
               !["saveEmbMeas"] = @ /\ ~ts[3].res.none]

\* lines 183-210: instantiate the container variables
OL_Alloc ==
    /\ prog = "openloop" /\ pc = "ol_alloc"
    /\ save' = [n \in ContainerNames |->
                  IF n \in AllocNames(runOpts, tasks) THEN Allocated(Niter(seqs)) ELSE save[n]]
    /\ badTimes' = IF runOpts.saveData THEN [alloc |-> TRUE, list |-> <<>>] ELSE badTimes
    /\ IF AllocError(runOpts, tasks) = ""
       THEN pc' = "ol_loop_head" /\ err' = err /\ runOpts' = AfterAlloc(runOpts, tasks)
       ELSE Crash(AllocError(runOpts, tasks)) /\ runOpts' = runOpts
    /\ UNCHANGED <<ioVars, prog, i, nAcq, timeVars, scriptVars, seqs, am, tasks, out, sent, files>>

\* a loop that is followed by the export at once
AfterLoopSkipsShutoff == "ol_export"

\* lines 287-288: the statement after the loop shuts off the APPJ
AfterLoop == "ol_shutoff"

\* line 213-214: `for i in range(Niter)` and startTime = time.time().  The
\* previous iteration's runTime is never read again before line 276 assigns
\* it anew, so the model forgets it here.
OL_LoopHead ==
    /\ prog = "openloop" /\ pc = "ol_loop_head"
    /\ IF i < Niter(seqs)
       THEN pc' = "ol_measure" /\ clock' = 0 /\ slept' = 0 /\ runTime' = 0
       ELSE pc' = AfterLoop /\ UNCHANGED <<clock, slept, runTime>>
    /\ UNCHANGED <<ioVars, prog, err, i, nAcq, scriptVars, olVars>>

\* the placeholder given to Ts only
AssembleTempTsOnly(res) ==
    IF ~res.none
    THEN [Ts |-> res.v[1], Ts2 |-> res.v[2], Ts3 |-> res.v[3]]
    ELSE [Ts |-> Val(TempSentinel), Ts2 |-> Val(0), Ts3 |-> Val(0)]

\* lines 220-230: the temperatures of the iteration
AssembleTemp(res) ==
    IF ~res.none
    THEN [Ts |-> res.v[1], Ts2 |-> res.v[2], Ts3 |-> res.v[3]]
    ELSE [Ts |-> Val(TempSentinel), Ts2 |-> Val(TempSentinel), Ts3 |-> Val(TempSentinel)]

\* lines 232-244: the spectrometer outputs of the iteration
AssembleSpec(res) ==
    IF ~res.none
    THEN [totalIntensity |-> res.v[1], intensitySpectrum |-> res.v[2],
          wavelengths |-> res.v[3], meanShift |-> res.v[4]]
    ELSE [totalIntensity |-> Val(SpecSentinel), intensitySpectrum |-> Val(SpecSentinel),
          wavelengths |-> Val(SpecSentinel), meanShift |-> Val(SpecSentinel)]

\* lines 220-266: how far the loop body gets (stage) and the exception that
\* stops it: 0 reading tasks[0], 1 reading tasks[1], 2 reading tasks[2],
\* 3 reading tasks[3] and arduinoOut[0], 4 the body completes
AssembleEnd(ro, ts) ==
    IF Raised(ts[0]) THEN [stage |-> 0, e |-> "DeviceError"]
    ELSE IF Raised(ts[1]) THEN [stage |-> 1, e |-> "DeviceError"]
    ELSE IF ro.saveOscMeas /\ Raised(ts[2]) THEN [stage |-> 2, e |-> "DeviceError"]
    ELSE IF Raised(ts[3]) THEN [stage |-> 3, e |-> "DeviceError"]
    ELSE IF ts[3].res.none THEN [stage |-> 3, e |-> "TypeError"]
    ELSE [stage |-> 4, e |-> ""]

\* lines 246-266: the value the loop body stores in container n, when it does
Stored(n, ro, ts, loc) ==
    CASE n = "Tsave" -> [on |-> ro.saveData, stage |-> 2, v |-> loc.Ts]
      [] n = "Isave" -> [on |-> ro.saveData, stage |-> 2, v |-> loc.totalIntensity]
      [] n = "Ts2save" -> [on |-> ro.saveSpatialTemp, stage |-> 2, v |-> loc.Ts2]
      [] n = "Ts3save" -> [on |-> ro.saveSpatialTemp, stage |-> 2, v |-> loc.Ts3]
      [] n = "waveSave" -> [on |-> ro.saveSpectra, stage |-> 2, v |-> loc.wavelengths]
      [] n = "specSave" -> [on |-> ro.saveSpectra, stage |-> 2, v |-> loc.intensitySpectrum]
      [] n = "meanShiftSave" -> [on |-> ro.saveSpectra, stage |-> 2, v |-> loc.meanShift]
      [] n = "oscSave" -> [on |-> ro.saveOscMeas, stage |-> 3,
                           v |-> IF ts[2].res.none THEN ValNone ELSE ts[2].res.v[1]]
      [] n = "ArdSave" -> [on |-> ro.saveEmbMeas, stage |-> 4,
                           v |-> IF ts[3].res.none THEN ValNone ELSE ts[3].res.v[2]]

\* lines 217-268: read the task results, substitute the placeholders and
\* store the iteration's measurements
OL_Assemble ==
    /\ prog = "openloop" /\ pc = "ol_assemble"
    /\ LET end == AssembleEnd(runOpts, tasks)
           temp == AssembleTemp(tasks[0].res)
           spectra == AssembleSpec(tasks[1].res)
           loc == [Ts |-> temp.Ts, Ts2 |-> temp.Ts2, Ts3 |-> temp.Ts3,
                   totalIntensity |-> spectra.totalIntensity,
                   intensitySpectrum |-> spectra.intensitySpectrum,
                   wavelengths |-> spectra.wavelengths,
                   meanShift |-> spectra.meanShift]
       IN
       /\ out' = IF end.stage = 0 THEN out
                 ELSE IF end.stage = 1
                 THEN [out EXCEPT !.Ts = temp.Ts, !.Ts2 = temp.Ts2, !.Ts3 = temp.Ts3]
                 ELSE loc
       /\ save' = [n \in ContainerNames |->
                     LET st == Stored(n, runOpts, tasks, loc)
                     IN IF st.on /\ end.stage >= st.stage THEN Store(save[n], i, st.v)
                        ELSE save[n]]
       /\ prevTime' = IF end.stage = 4
                       THEN [val |-> tasks[3].res.v[1], by |-> "run_open_loop"]
                       ELSE prevTime
       /\ IF end.e = "" THEN pc' = "ol_send" /\ err' = err ELSE Crash(end.e)
    /\ UNCHANGED <<latMax, touched, serial, prog, i, nAcq, timeVars, scriptVars, runOpts,
                   seqs, am, tasks, badTimes, sent, files>>

\* line 272: appj.sendControlledInputsArduino(arduinoPI, power_seq[i], flow_seq[i], ...);
\* the two inputs are named by their index in power_seq and flow_seq
OL_Send ==
    /\ prog = "openloop" /\ pc = "ol_send"
    /\ sent' = Append(sent, [kind |-> "inputs", power |-> i, flow |-> i])
    /\ pc' = "ol_pace"
    /\ UNCHANGED <<ioVars, prog, err, i, nAcq, timeVars, scriptVars, runOpts, seqs, am, tasks,
                   out, save, badTimes, files>>

\* lines 278-281: the argument of time.sleep(), 0 when the loop does not sleep
OLPauseTime(rt) == IF samplingTime - rt > 0 THEN samplingTime - rt ELSE 0

\* lines 279-285: the else branch of `if pauseTime>0`
IsBadTime(rt) == ~(samplingTime - rt > 0)

\* lines 274-285: pause for the rest of the sampling time, or note the bad time
OL_Pace ==
    /\ prog = "openloop" /\ pc = "ol_pace"
    /\ runTime' = clock
    /\ slept' = OLPauseTime(runTime')
    /\ clock' = clock + slept'
    /\ badTimes' = IF IsBadTime(runTime') /\ runOpts.saveData
                   THEN [badTimes EXCEPT !.list = Append(@, i)]
                   ELSE badTimes
    /\ i' = NextIndex(i)
    /\ pc' = "ol_loop_head"
    /\ UNCHANGED <<ioVars, prog, err, nAcq, scriptVars, runOpts, seqs, am, tasks, out, save,
                   sent, files>>

\* line 288: shut off APPJ, sendInputsArduino(arduinoPI, 0.0, 0.0, 100.0, ...)
OL_Shutoff ==
    /\ prog = "openloop" /\ pc = "ol_shutoff"
    /\ sent' = Append(sent, [kind |-> "shutoff", power |-> 0, flow |-> 0, duty |-> 100])
    /\ pc' = "ol_export"
    /\ UNCHANGED <<ioVars, prog, err, i, nAcq, timeVars, scriptVars, runOpts, seqs, am, tasks,
                   out, save, badTimes, files>>

\* lines 291-309: the containers put into exp_data
ExportNames(ro) ==
    {"Tsave", "Isave"}
    \cup (IF ro.collectSpatialTemp THEN {"Ts2save", "Ts3save"} ELSE {})
    \cup (IF ro.collectEntireSpectra THEN {"waveSave", "specSave", "meanShiftSave"} ELSE {})
    \cup (IF ro.collectOscMeas THEN {"oscSave"} ELSE {})
    \cup (IF ro.collectEmbedded THEN {"ArdSave"} ELSE {})

\* a container that was never allocated is an unbound local: NameError
ExportError(ro, sv, bt) ==
    IF (\E n \in ExportNames(ro) : ~sv[n].alloc) \/ ~bt.alloc THEN "NameError" ELSE ""

\* lines 290-313: build exp_data and save the .npy backup copy
OL_Export ==
    /\ prog = "openloop" /\ pc = "ol_export"
    /\ IF ExportError(runOpts, save, badTimes) = ""
       THEN /\ files' = [files EXCEPT !.npy =
                            [written |-> TRUE,
                             data |-> [n \in ExportNames(runOpts) |-> save[n].cells],
                             badTimes |-> badTimes.list]]
            /\ pc' = "ol_csv" /\ err' = err
       ELSE Crash(ExportError(runOpts, save, badTimes)) /\ files' = files
    /\ UNCHANGED <<ioVars, prog, i, nAcq, timeVars, scriptVars, runOpts, seqs, am, tasks, out,
                   save, badTimes, sent>>

\* lines 339-389: the CSV files exp_data_saver writes, in order, and the
\* container each needs in exp_data
CsvBlocks(ro) ==
    <<[on |-> ro.saveData, file |-> "inputOutputData", needs |-> "Tsave"],
      [on |-> ro.saveSpatialTemp, file |-> "dataCollectionSpatialTemps", needs |-> "Ts2save"],
      [on |-> ro.saveSpectra, file |-> "dataCollectionSpectra", needs |-> "waveSave"],
      [on |-> ro.saveOscMeas, file |-> "dataCollectionOscilloscope", needs |-> "oscSave"],
      [on |-> ro.saveEmbMeas, file |-> "dataCollectionEmbedded", needs |-> "ArdSave"]>>

\* the first block whose container is missing from exp_data (KeyError), or 0
CsvFailsAt(ro) ==
    LET bad == {b \in 1..Len(CsvBlocks(ro)) :
                  CsvBlocks(ro)[b].on /\ CsvBlocks(ro)[b].needs \notin ExportNames(ro)}
    IN IF bad = {} THEN 0 ELSE CHOOSE b \in bad : \A c \in bad : b <= c

\* lines 315-322: save the csv version of the experimental data
OL_SaveCsv ==
    /\ prog = "openloop" /\ pc = "ol_csv"
    /\ LET stop == CsvFailsAt(runOpts)
           last == IF stop = 0 THEN Len(CsvBlocks(runOpts)) ELSE stop - 1
       IN /\ files' = [files EXCEPT !.csv =
                          {CsvBlocks(runOpts)[b].file : b \in {c \in 1..last : CsvBlocks(runOpts)[c].on}}]
          /\ IF stop = 0 THEN pc' = "done" /\ err' = err ELSE Crash("KeyError")
    /\ UNCHANGED <<ioVars, prog, i, nAcq, timeVars, scriptVars, runOpts, seqs, am, tasks, out,
                   save, badTimes, sent>>

---------------------------------------------------------------------------
(* utils/oscilloscope.py: Oscilloscope.set_channels and set_data_buffers.   *)
(* A name is a sequence of characters.  A channel or buffer dictionary is   *)
(* its name and the set of the other keys it gives; the value of a given    *)
(* key is passed on as it is.  The two loops take one dictionary of their   *)
(* list per step; the list is any list of the announced length.  osc.call   *)
(* is the call under way: the function, the number of dictionaries left,    *)
(* the names of those taken, the loop variable, and the argument list       *)
(* (ch_args, buff_args) of the last driver call.  The locals of a call are  *)
(* gone when it returns.                                                    *)

Letters == {"A", "B", "C", "D"}
NamePrefix == <<"C", "H", "_">>

\* class Channel(Enum), lines 25-29: member name |-> member value (the
\* PS2000A_CHANNEL of the member's letter)
Channel == [n \in {NamePrefix \o <<l>> : l \in Letters} |-> n[4]]

\* the names a caller may give: one letter, the Enum form, and names of
\* another length
GivenNames ==
    {<<l>> : l \in Letters \cup {"E"}}
    \cup {NamePrefix \o <<l>> : l \in Letters \cup {"E"}}
    \cup {<<"A", "B">>}

\* the settings of a channel in the order of the arguments of ps2000aSetChannel
ChannelSettings == <<"enable_status", "coupling_type", "range", "analog_offset">>

\* lines 147-150: the defaults set_channels binds
BoundDefaults ==
    {"default_enable_status", "default_coupling_type", "default_channel_range",
     "default_analog_offset"}

\* lines 171-197: the name each else branch reads for a missing setting
DefaultRead ==
    [enable_status |-> "default_enable_status", coupling_type |-> "default_coupling_type",
     range |-> "default_range", analog_offset |-> "default_analog_offset"]

ChannelDicts == [name : GivenNames, given : SUBSET {ChannelSettings[n] : n \in 1..4}]

\* lines 160-169: the channel argument and ch_name of a channel dictionary.
\* Channel[...] raises KeyError for a name that is no member; a bare `raise`
\* outside an except block raises RuntimeError
ChannelOf(name) ==
    IF Len(name) = 1
    THEN IF NamePrefix \o name \in DOMAIN Channel
         THEN [e |-> "", value |-> Channel[NamePrefix \o name], ch_name |-> name[1]]
         ELSE [e |-> "KeyError", value |-> "", ch_name |-> ""]
    ELSE IF Len(name) = 4
    THEN IF name \in DOMAIN Channel
         THEN [e |-> "", value |-> Channel[name], ch_name |-> name[4]]
         ELSE [e |-> "KeyError", value |-> "", ch_name |-> ""]
    ELSE [e |-> "RuntimeError", value |-> "", ch_name |-> ""]

\* lines 171-197: the settings appended to ch_args; the first else branch
\* that reads a name the function never bound raises NameError and nothing
\* is appended from there on
SettingArgs(channel) ==
    LET unbound == {n \in 1..4 : /\ ChannelSettings[n] \notin channel.given
                                 /\ DefaultRead[ChannelSettings[n]] \notin BoundDefaults}
        last == IF unbound = {} THEN 4
                ELSE (CHOOSE n \in unbound : \A m \in unbound : n <= m) - 1
    IN [e |-> IF unbound = {} THEN "" ELSE "NameError",
        args |-> [n \in 1..last |->
                    IF ChannelSettings[n] \in channel.given
                    THEN <<ChannelSettings[n], "given">>
                    ELSE <<ChannelSettings[n], DefaultRead[ChannelSettings[n]]>>]]

\* the script or test that uses the instance: set_channels first, as
\* initialize_device does (line 557), or set_data_buffers straight away
SetChannels_Call ==
    /\ prog = "oscilloscope" /\ pc = "osc_new"
    /\ \E n \in 0..MaxChannels :
        osc' = [osc EXCEPT !.call = [NoCall EXCEPT !.fn = "set_channels", !.left = n]]
    /\ pc' = "set_channels"
    /\ UNCHANGED <<ioVars, olVars, prog, err, i, nAcq, timeVars, cfg, meas, spec_list, osc_list,
                   h5, csv, backupLog, oscDev, status, sigGen>>

\* lines 152-202: one pass of `for channel in channels`
SetChannel ==
    /\ prog = "oscilloscope" /\ pc = "set_channels" /\ osc.call.left > 0
    /\ \E channel \in ChannelDicts, ok \in BOOLEAN :
        LET ch == ChannelOf(channel.name)
            settings == SettingArgs(channel)
            \* line 154: ch_args = []
            taken == [osc.call EXCEPT !.item = channel, !.args = <<>>]
        IN IF ch.e # ""
           THEN /\ Crash(ch.e)
                /\ osc' = [osc EXCEPT !.call = taken]
                /\ status' = status /\ ok
           ELSE IF settings.e # ""
           THEN /\ Crash(settings.e)
                /\ osc' = [osc EXCEPT !.call = [taken EXCEPT !.args = <<ch.value>> \o settings.args]]
                /\ status' = status /\ ok
           ELSE /\ osc' = [osc EXCEPT
                             !.call = [taken EXCEPT !.left = @ - 1,
                                                    !.seen = Append(@, channel.name),
                                                    !.args = <<ch.value>> \o settings.args]]
                /\ IF ok THEN UNCHANGED <<pc, err, status>>
                   ELSE Crash("PicoError") /\ status' = status \cup {"set_ch"}
    /\ UNCHANGED <<ioVars, olVars, prog, i, nAcq, timeVars, cfg, meas, spec_list, osc_list,
                   h5, csv, backupLog, oscDev, sigGen>>

\* data dictionaries named by the channel's letter, whichever form was given
ChannelDatasByLetter(chans) ==
    [k \in DOMAIN chans |-> [name |-> <<chans[k][Len(chans[k])]>>, data |-> ""]]
\* line 205: one dictionary per channel, holding the name as given and no
\* "data" key yet (data "")
ChannelDatas(chans) ==
    [k \in DOMAIN chans |-> [name |-> chans[k], data |-> ""]]

\* lines 204-207: the instance remembers the channels
SetChannels_Return ==
    /\ prog = "oscilloscope" /\ pc = "set_channels" /\ osc.call.left = 0
    /\ osc' = [osc EXCEPT !.channels_info = [none |-> FALSE, v |-> osc.call.seen],
                          !.channel_datas = [none |-> FALSE, v |-> ChannelDatas(osc.call.seen)],
                          !.call = NoCall]
    /\ pc' = "osc_chset"
    /\ UNCHANGED <<ioVars, olVars, prog, err, i, nAcq, timeVars, cfg, meas, spec_list, osc_list,
                   h5, csv, backupLog, oscDev, status, sigGen>>

\* lines 238-246: the channel argument and ch_name of a buffer dictionary;
\* the elif reads the name `channel`, which set_data_buffers never binds
BufferChannelOf(name) ==
    IF Len(name) = 1 THEN ChannelOf(name)
    ELSE [e |-> "NameError", value |-> "", ch_name |-> ""]

\* a buffer dictionary gives its name and at most one of the other keys
BufferDicts ==
    [name : GivenNames, given : {{}, {"seg_idx"}, {"segment_index"}, {"ratio_mode"}}]

\* lines 274-289: the segment index and the ratio mode appended to buff_args
BufferArgs(buff) ==
    <<IF "seg_idx" \in buff.given THEN <<"seg_idx", "given">>
      ELSE IF "segment_index" \in buff.given THEN <<"segment_index", "given">>
      ELSE <<"segment_index", "default_segment_idx">>,
      IF "ratio_mode" \in buff.given THEN <<"ratio_mode", "given">>
      ELSE <<"ratio_mode", "default_ratio_mode">>>>

\* a list of buffers that covers only part of the channels is taken too
BuffersAcceptedIfFewer(n) == ~osc.channels_info.none /\ n <= Len(osc.channels_info.v)
\* lines 219-229: set_data_buffers goes on with a list of n buffers
BuffersAccepted(n) == ~osc.channels_info.none /\ n = Len(osc.channels_info.v)

\* lines 219-234: the checks of set_data_buffers(buffers) for a list of n
\* buffers, then the fresh buffer lists
SetDataBuffers_Call ==
    /\ prog = "oscilloscope" /\ pc \in {"osc_new", "osc_chset"}
    /\ \E n \in 0..MaxChannels :
        LET call == [NoCall EXCEPT !.fn = "set_data_buffers", !.left = n]
        IN IF ~BuffersAccepted(n)
           THEN Crash("RuntimeError") /\ osc' = [osc EXCEPT !.call = call]
           ELSE /\ osc' = [osc EXCEPT !.buffer_maxes = [none |-> FALSE, v |-> <<>>],
                                      !.call = call]
                /\ pc' = "set_data_buffers" /\ err' = err
    /\ UNCHANGED <<ioVars, olVars, prog, i, nAcq, timeVars, cfg, meas, spec_list, osc_list,
                   h5, csv, backupLog, oscDev, status, sigGen>>

\* lines 235-294: one pass of `for buff in buffers`
SetBuffer ==
    /\ prog = "oscilloscope" /\ pc = "set_data_buffers" /\ osc.call.left > 0
    /\ \E buff \in BufferDicts, ok \in BOOLEAN :
        LET ch == BufferChannelOf(buff.name)
            \* line 237: buff_args = []
            taken == [osc.call EXCEPT !.item = buff, !.args = <<>>]
        IN IF ch.e # ""
           THEN /\ Crash(ch.e)
                /\ osc' = [osc EXCEPT !.call = taken]
                /\ status' = status /\ ok
           ELSE /\ osc' = [osc EXCEPT
                             !.buffer_maxes = [none |-> FALSE, v |-> Append(@.v, ch.ch_name)],
                             !.call = [taken EXCEPT !.left = @ - 1,
                                                    !.seen = Append(@, buff.name),
                                                    !.args = <<ch.value>> \o BufferArgs(buff)]]
                /\ IF ok THEN UNCHANGED <<pc, err, status>>
                   ELSE Crash("PicoError") /\ status' = status \cup {"setBuffer"}
    /\ UNCHANGED <<ioVars, olVars, prog, i, nAcq, timeVars, cfg, meas, spec_list, osc_list,
                   h5, csv, backupLog, oscDev, sigGen>>

\* lines 296-298: the instance remembers the buffers
SetDataBuffers_Return ==
    /\ prog = "oscilloscope" /\ pc = "set_data_buffers" /\ osc.call.left = 0
    /\ osc' = [osc EXCEPT !.buffers_info = [none |-> FALSE, v |-> osc.call.seen],
                          !.call = NoCall]
    /\ pc' = "done"
    /\ UNCHANGED <<ioVars, olVars, prog, err, i, nAcq, timeVars, cfg, meas, spec_list, osc_list,
                   h5, csv, backupLog, oscDev, status, sigGen>>

\* the length zip() stops at
Shortest(lens) == CHOOSE n \in lens : \A m \in lens : n <= m

\* lines 489-491 and 535-537: the loop over zip(channels_info, channel_datas,
\* buffers) with nbuf buffers: every pass asserts the two names equal and
\* binds the "data" key to the result of adc2mV (kind); the first failing
\* assertion ends the loop
Converted(infos, datas, nbuf, kind) ==
    LET n == Shortest({Len(infos), Len(datas), nbuf})
        bad == {k \in 1..n : infos[k] # datas[k].name}
        upto == IF bad = {} THEN n ELSE Shortest(bad) - 1
    IN [e |-> IF bad = {} THEN "" ELSE "AssertionError",
        datas |-> [k \in DOMAIN datas |->
                     IF k <= upto THEN [datas[k] EXCEPT !.data = kind] ELSE datas[k]]]

\* a collect call on an instance whose channels and buffers are set: the
\* driver calls whose status is asserted, in order, then the conversion loop
CollectData(kind, asserted, nbuf) ==
    /\ prog = "oscilloscope" /\ pc = "done"
    /\ \E bad \in {""} \cup asserted :
        IF bad # ""
        THEN Crash("PicoError") /\ status' = status \cup {bad} /\ osc' = osc
        ELSE LET conv == Converted(osc.channels_info.v, osc.channel_datas.v, nbuf, kind)
             IN /\ osc' = [osc EXCEPT !.channel_datas = [none |-> FALSE, v |-> conv.datas]]
                /\ status' = status
                /\ IF conv.e # "" THEN Crash(conv.e)
                   ELSE pc' = "osc_collected" /\ err' = err
    /\ UNCHANGED <<ioVars, olVars, prog, i, nAcq, timeVars, cfg, meas, spec_list, osc_list,
                   h5, csv, backupLog, oscDev, sigGen>>

\* lines 509-545: collect_data_block; it returns channel_datas itself
CollectDataBlock ==
    CollectData("mV", {"run_block", "get_values", "maximumValue"}, Len(osc.buffer_maxes.v))

\* lines 470-494: collect_data_streaming once its poll loop has ended;
\* line 430 makes one complete buffer per channel
CollectDataStreaming ==
    CollectData("mV", {"runStreaming", "maximumValue"}, Len(osc.channels_info.v))

\* run_manual.py, lines 233-235: the script's loop over zip(channels,
\* osc_data) asserts the names equal; channels is the list the script gave
\* to set_channels and osc_data the list the collect call returned
AssertChannelNames ==
    /\ prog = "oscilloscope" /\ pc = "osc_collected"
    /\ LET chans == osc.channels_info.v
           osc_data == osc.channel_datas.v
           n == Shortest({Len(chans), Len(osc_data)})
       IN IF \A k \in 1..n : chans[k] = osc_data[k].name
          THEN pc' = "done" /\ err' = err
          ELSE Crash("AssertionError")
    /\ UNCHANGED <<ioVars, olVars, prog, i, nAcq, timeVars, scriptVars>>

---------------------------------------------------------------------------
(* collect_data_streaming step by step.  Samples are numbered from 1 in    *)
(* the order the device takes them since ps2000aRunStreaming; the count of *)
(* a sample is its number, for every channel.  The device is started with  *)
(* maxPostTriggerSamples = total_buff_size and autoStop on (lines 414-422),*)
(* so it hands over at most total_buff_size samples, in chunks that lie    *)
(* inside the registered buffer, and nothing after it reported autoStop.   *)

\* lines 69-71: set_capture_size in mode 'streaming'
total_buff_size == SingleBuffSize * NBuffs

Zeros(n) == [k \in 1..n |-> 0]

\* lines 430-433: the attributes initialize_streaming binds for nch channels
FreshStream(nch) ==
    [nextSample |-> 0, autoStopOuter |-> FALSE, wasCalledBack |-> FALSE,
     complete_buffers |-> [c \in 1..nch |-> Zeros(total_buff_size)]]

\* lines 401-433: initialize_streaming up to the callback's definition
InitializeStreaming ==
    /\ prog = "streaming" /\ pc = "stream_idle"
    /\ \E ok \in BOOLEAN :
        IF ok
        THEN /\ osc' = [osc EXCEPT !.stream = FreshStream(Len(osc.channels_info.v)),
                                   !.driver = [@ EXCEPT !.sent = 0, !.stopped = FALSE,
                                                        !.called = FALSE]]
             /\ pc' = "poll" /\ err' = err /\ status' = status
        ELSE Crash("PicoError") /\ status' = status \cup {"runStreaming"} /\ osc' = osc
    /\ UNCHANGED <<ioVars, olVars, prog, i, nAcq, timeVars, cfg, meas, spec_list, osc_list,
                   h5, csv, backupLog, oscDev, sigGen>>

\* a loop that goes on until the capture buffer is full
LoopGoesOnUntilFull(st) == st.nextSample < total_buff_size
\* line 472: the condition of the poll loop
LoopGoesOn(st) == st.nextSample < total_buff_size /\ ~st.autoStopOuter

\* lines 472-473: the test of the poll loop, then wasCalledBack = False
PollTest ==
    /\ prog = "streaming" /\ pc = "poll"
    /\ IF LoopGoesOn(osc.stream)
       THEN /\ osc' = [osc EXCEPT !.stream.wasCalledBack = FALSE]
            /\ pc' = "latest"
       ELSE osc' = osc /\ pc' = "convert"
    /\ UNCHANGED <<ioVars, olVars, prog, err, i, nAcq, timeVars, cfg, meas, spec_list, osc_list,
                   h5, csv, backupLog, oscDev, status, sigGen>>

\* buffer[a:b] of a numpy array of length n: the indices (from 1) it covers
Slice(n, a, b) == {k \in 1..n : a < k /\ k <= b}

\* a callback that copies the chunk to where it lay in the registered buffer
CopiedAtSource(complete, nextSample, buffer_max, startIndex, noOfSamples) ==
    [k \in 1..Len(complete) |->
        IF k \in Slice(Len(complete), startIndex, startIndex + noOfSamples)
        THEN buffer_max[k] ELSE complete[k]]
\* line 441: complete_buffer[nextSample:destEnd] = buffer_max[startIndex:sourceEnd]
\* for slices of equal length
Copied(complete, nextSample, buffer_max, startIndex, noOfSamples) ==
    [k \in 1..Len(complete) |->
        IF k \in Slice(Len(complete), nextSample, nextSample + noOfSamples)
        THEN buffer_max[k - nextSample + startIndex] ELSE complete[k]]

\* lines 437-446: streaming_callback on the registered buffer.  Slices of
\* different lengths make the assignment of line 441 raise ValueError in the
\* first pass of its loop; ctypes prints an exception raised in a callback
\* and goes on, so only wasCalledBack has changed then
streaming_callback(st, buffer_max, noOfSamples, startIndex, autoStop) ==
    LET dest == Slice(total_buff_size, st.nextSample, st.nextSample + noOfSamples)
        source == Slice(Len(buffer_max), startIndex, startIndex + noOfSamples)
        called == [st EXCEPT !.wasCalledBack = TRUE]
    IN IF Cardinality(dest) # Cardinality(source)
       THEN called
       ELSE [called EXCEPT
                !.complete_buffers =
                    [c \in DOMAIN @ |-> Copied(@[c], st.nextSample, buffer_max, startIndex,
                                               noOfSamples)],
                !.nextSample = @ + noOfSamples,
                !.autoStopOuter = @ \/ autoStop]

\* the chunk of n samples written by the device at startIndex of the
\* registered buffer
DeviceWrote(buffer, before, startIndex, n) ==
    [k \in 1..Len(buffer) |->
        IF startIndex < k /\ k <= startIndex + n THEN before + (k - startIndex) ELSE buffer[k]]

\* lines 474-478: ps2000aGetStreamingLatestValues.  The driver calls the
\* callback with the samples that are ready, or does not call it and the
\* loop sleeps.  The registered buffer is used as a ring: a chunk lies where
\* the chunk before it ended and does not wrap
GetStreamingLatestValues ==
    /\ prog = "streaming" /\ pc = "latest"
    /\ \/ osc' = osc
       \/ /\ ~osc.driver.stopped
          /\ \E noOfSamples \in 0..SingleBuffSize, autoStop \in BOOLEAN :
             \E startIndex \in {osc.driver.sent % SingleBuffSize} :
                LET buffer == DeviceWrote(osc.driver.buffer, osc.driver.sent, startIndex,
                                       noOfSamples)
                IN /\ startIndex + noOfSamples <= SingleBuffSize
                   /\ osc.driver.sent + noOfSamples <= total_buff_size
                   /\ osc' = [osc EXCEPT
                                !.driver = [sent |-> @.sent + noOfSamples, stopped |-> autoStop,
                                            called |-> TRUE, buffer |-> buffer],
                                !.stream = streaming_callback(@, buffer, noOfSamples,
                                                              startIndex, autoStop)]
    /\ pc' = "poll"
    /\ UNCHANGED <<ioVars, olVars, prog, err, i, nAcq, timeVars, cfg, meas, spec_list, osc_list,
                   h5, csv, backupLog, oscDev, status, sigGen>>

\* lines 480-494: after the loop, ps2000aMaximumValue and the conversion
StreamingReturn ==
    /\ prog = "streaming" /\ pc = "convert"
    /\ \E ok \in BOOLEAN :
        IF ~ok
        THEN Crash("PicoError") /\ status' = status \cup {"maximumValue"} /\ osc' = osc
        ELSE LET conv == Converted(osc.channels_info.v, osc.channel_datas.v,
                                   Len(osc.stream.complete_buffers), "mV")
             IN /\ osc' = [osc EXCEPT !.channel_datas = [none |-> FALSE, v |-> conv.datas]]
                /\ status' = status
                /\ IF conv.e # "" THEN Crash(conv.e)
                   ELSE pc' = "stream_idle" /\ err' = err
    /\ UNCHANGED <<ioVars, olVars, prog, i, nAcq, timeVars, cfg, meas, spec_list, osc_list,
                   h5, csv, backupLog, oscDev, sigGen>>

---------------------------------------------------------------------------
(* get_avg_spatial_temp(n_pix, data, loc) of utils/thermal_camera.py.  The  *)
(* image data is indexed [row, column]; getSurfaceTemperature resizes it   *)
(* to 640 columns and 480 rows and passes the location (x, y) of its       *)
(* maximum.  A pixel is written <<row, column>>.  ktoc, which converts     *)
(* each pixel read, is not in the sources; the result is kept as the four  *)
(* pixels whose converted values are summed and the divisor.               *)

\* lines 128 and 138: the image bounds the function compares with
Width == 640
Height == 480

\* lines 127-131
East(n_pix, maxX, maxY) ==
    IF maxX + n_pix >= Width THEN <<maxY, maxX>> ELSE <<maxY, maxX + n_pix>>
\* lines 132-136
West(n_pix, maxX, maxY) ==
    IF maxX - n_pix < 0 THEN <<maxY, maxX>> ELSE <<maxY, maxX - n_pix>>
\* lines 137-141
South(n_pix, maxX, maxY) ==
    IF maxY + n_pix >= Height THEN <<maxY, maxX>> ELSE <<maxY + n_pix, maxX>>
\* lines 142-146
North(n_pix, maxX, maxY) ==
    IF maxY - n_pix < 0 THEN <<maxY, maxY>> ELSE <<maxY - n_pix, maxX>>

\* lines 125-149: avg_temp = (maxValE+maxValW+maxValN+maxValS)/4
get_avg_spatial_temp(n_pix, loc) ==
    LET maxX == loc[1]
        maxY == loc[2]
    IN [E |-> East(n_pix, maxX, maxY), W |-> West(n_pix, maxX, maxY),
        N |-> North(n_pix, maxX, maxY), S |-> South(n_pix, maxX, maxY), over |-> 4]

\* the call returns
GetAvgSpatialTemp ==
    /\ prog = "thermal" /\ pc = "spatial_call"
    /\ out' = [out EXCEPT !.avg_temp = get_avg_spatial_temp(out.n_pix, out.loc)]
    /\ pc' = "spatial_done"
    /\ UNCHANGED <<ioVars, runOpts, seqs, am, tasks, save, badTimes, sent, files, prog, err, i,
                   nAcq, timeVars, scriptVars>>

---------------------------------------------------------------------------
\* Ctrl-C while the cadence loop runs: KeyboardInterrupt is raised in the
\* main thread; neither the scripts nor run_open_loop have a
\* try/except/finally around the loop
Interrupt ==
    /\ pc \in LoopPcs \cup OLLoopPcs
    /\ pc' = "interrupted" /\ err' = "KeyboardInterrupt"
    /\ UNCHANGED <<ioVars, olVars, prog, i, nAcq, timeVars, scriptVars>>

---------------------------------------------------------------------------
(* Specifications *)

\* the parameter prevTime=0.0 of run_open_loop, no measurement under way and
\* nothing read from the serial port
IoDefaults ==
    /\ prevTime = [val |-> Val(0), by |-> "argument"]
    /\ latMax = 0
    /\ touched = {}
    /\ serial = NoSerial

\* one of the scripts runs; run_open_loop's state stays at its defaults
InitScripts ==
    /\ ScriptInit
    /\ runOpts = [n \in FlagNames |-> FALSE]
    /\ seqs = [power |-> 1, flow |-> 1]
    /\ am = "idle"
    /\ tasks = [k \in TaskIds |-> NoTask]
    /\ out = NoLocals
    /\ save = [n \in ContainerNames |-> Unallocated]
    /\ badTimes = [alloc |-> FALSE, list |-> <<>>]
    /\ sent = <<>>
    /\ files = NoFiles
    /\ IoDefaults

ScriptDefaults ==
    /\ cfg = [TEST |-> FALSE, async_collection |-> FALSE, collect_spec |-> FALSE,
              collect_osc |-> FALSE, save_backup |-> FALSE, n_iterations |-> 0]
    /\ meas = [osc |-> -1, spec |-> -1]
    /\ spec_list = <<>> /\ osc_list = <<>>
    /\ h5 = [spec |-> Unwritten, osc |-> Unwritten]
    /\ csv = [spec |-> Unwritten, osc |-> Unwritten]
    /\ backupLog = <<>>
    /\ oscDev = "unset"
    /\ status = {}
    /\ osc = NewOsc
    /\ sigGen = 0

\* run_open_loop runs; the scripts' state stays at its defaults
InitOpenLoop == OLInit /\ ScriptDefaults /\ IoDefaults

Init == InitScripts \/ InitOpenLoop

NextScripts ==
    \/ Connect
    \/ Startup
    \/ LoopHead
    \/ SetSignal
    \/ Collect
    \/ AppendData
    \/ Backup
    \/ Pace
    \/ FinalSpec
    \/ FinalOsc
    \/ Close
    \/ Interrupt

NextMeasure ==
    \/ AM_Start
    \/ \E k \in TaskIds : TaskRun(k)
    \/ AM_Return

NextOpenLoop ==
    \/ NextMeasure
    \/ OL_InitRead
    \/ OL_Alloc
    \/ OL_LoopHead
    \/ OL_Assemble
    \/ OL_Send
    \/ OL_Pace
    \/ OL_Shutoff
    \/ OL_Export
    \/ OL_SaveCsv
    \/ Interrupt

Next == NextScripts \/ NextOpenLoop

\* every program of the repository's cadence loops
Spec == Init /\ [][Next]_vars

\* run_manual.py and run_with_sig_gen.py alone
SpecScripts == InitScripts /\ [][NextScripts]_vars

\* Experiment.run_open_loop alone
SpecOpenLoop == InitOpenLoop /\ [][NextOpenLoop]_vars

\* a fresh Oscilloscope instance; everything else stays at its defaults
InitOscSetup ==
    /\ prog = "oscilloscope"
    /\ pc = "osc_new"
    /\ err = "" /\ i = 0 /\ nAcq = 0
    /\ clock = 0 /\ runTime = 0 /\ slept = 0
    /\ runOpts = [n \in FlagNames |-> FALSE]
    /\ seqs = [power |-> 1, flow |-> 1]
    /\ am = "idle"
    /\ tasks = [k \in TaskIds |-> NoTask]
    /\ out = NoLocals
    /\ save = [n \in ContainerNames |-> Unallocated]
    /\ badTimes = [alloc |-> FALSE, list |-> <<>>]
    /\ sent = <<>>
    /\ files = NoFiles
    /\ ScriptDefaults /\ IoDefaults

NextOscSetup ==
    \/ SetChannels_Call
    \/ SetChannel
    \/ SetChannels_Return
    \/ SetDataBuffers_Call
    \/ SetBuffer
    \/ SetDataBuffers_Return
    \/ CollectDataBlock
    \/ CollectDataStreaming
    \/ AssertChannelNames

\* Oscilloscope.set_channels and Oscilloscope.set_data_buffers alone
SpecOscSetup == InitOscSetup /\ [][NextOscSetup]_vars

\* the names of the channels of an instance with nch channels
ChannelLetters == <<"A", "B", "C", "D">>

\* an instance of mode 'streaming' after initialize_device returned for one
\* or more channels named by their letters: its channels and buffers are
\* set, the registered buffers are the zeros of set_data_buffers
InitStreaming ==
    /\ prog = "streaming"
    /\ pc = "stream_idle"
    /\ err = "" /\ i = 0 /\ nAcq = 0
    /\ clock = 0 /\ runTime = 0 /\ slept = 0
    /\ runOpts = [n \in FlagNames |-> FALSE]
    /\ seqs = [power |-> 1, flow |-> 1]
    /\ am = "idle"
    /\ tasks = [k \in TaskIds |-> NoTask]
    /\ out = NoLocals
    /\ save = [n \in ContainerNames |-> Unallocated]
    /\ badTimes = [alloc |-> FALSE, list |-> <<>>]
    /\ sent = <<>>
    /\ files = NoFiles
    /\ IoDefaults
    /\ cfg = [TEST |-> FALSE, async_collection |-> FALSE, collect_spec |-> FALSE,
              collect_osc |-> FALSE, save_backup |-> FALSE, n_iterations |-> 0]
    /\ meas = [osc |-> -1, spec |-> -1]
    /\ spec_list = <<>> /\ osc_list = <<>>
    /\ h5 = [spec |-> Unwritten, osc |-> Unwritten]
    /\ csv = [spec |-> Unwritten, osc |-> Unwritten]
    /\ backupLog = <<>>
    /\ oscDev = "open"
    /\ status = {}
    /\ sigGen = 0
    /\ \E nch \in 1..MaxChannels :
        LET names == [c \in 1..nch |-> <<ChannelLetters[c]>>]
        IN osc = [NewOsc EXCEPT
                    !.channels_info = [none |-> FALSE, v |-> names],
                    !.channel_datas = [none |-> FALSE, v |-> ChannelDatas(names)],
                    !.buffers_info = [none |-> FALSE, v |-> names],
                    !.buffer_maxes = [none |-> FALSE,
                                      v |-> [c \in 1..nch |-> ChannelLetters[c]]],
                    !.driver.buffer = Zeros(SingleBuffSize)]

NextStreaming ==
    \/ InitializeStreaming
    \/ PollTest
    \/ GetStreamingLatestValues
    \/ StreamingReturn

\* Oscilloscope.collect_data_streaming, called any number of times
SpecStreaming == InitStreaming /\ [][NextStreaming]_vars

\* the driver keeps handing over samples or reports autoStop: of the polls
\* of a loop that goes on for ever, some get a callback that brings samples
\* or autoStop
Delivering ==
    /\ GetStreamingLatestValues
    /\ \/ osc'.stream.nextSample > osc.stream.nextSample
       \/ osc'.stream.autoStopOuter

\* the steps of a call once initialize_streaming has started the device
CallSteps == PollTest \/ GetStreamingLatestValues \/ StreamingReturn

\* the thread runs on and the driver delivers
SpecStreamingFair ==
    /\ SpecStreaming
    /\ WF_vars(CallSteps)
    /\ SF_vars(Delivering)

\* the coordinates within MaxPix of an edge of a range of n
NearEdge(n) == (0..MaxPix) \cup ((n - 1 - MaxPix)..(n - 1))

\* a call of get_avg_spatial_temp with an offset of 1..MaxPix pixels and a
\* location near a border or corner of the image; out holds the call's
\* arguments and its result
InitSpatial ==
    /\ prog = "thermal"
    /\ pc = "spatial_call"
    /\ err = "" /\ i = 0 /\ nAcq = 0
    /\ clock = 0 /\ runTime = 0 /\ slept = 0
    /\ runOpts = [n \in FlagNames |-> FALSE]
    /\ seqs = [power |-> 1, flow |-> 1]
    /\ am = "idle"
    /\ tasks = [k \in TaskIds |-> NoTask]
    /\ save = [n \in ContainerNames |-> Unallocated]
    /\ badTimes = [alloc |-> FALSE, list |-> <<>>]
    /\ sent = <<>>
    /\ files = NoFiles
    /\ ScriptDefaults /\ IoDefaults
    /\ \E n_pix \in 1..MaxPix, x \in NearEdge(Width), y \in NearEdge(Height) :
        out = [n_pix |-> n_pix, loc |-> <<x, y>>, avg_temp |-> <<>>]

NextSpatial == GetAvgSpatialTemp

\* get_avg_spatial_temp alone
SpecSpatial == InitSpatial /\ [][NextSpatial]_vars

---------------------------------------------------------------------------
(* The loop body of run_open_loop (lines 217-268) on its own: it starts at *)
(* the measurement of iteration 0 with the containers lines 183-210        *)
(* allocate for the run options, for every combination of run options.    *)

\* the results of an initial measurement in which no device call fails
InitialResults(ro) == [k \in TaskIds |-> [st |-> "done", res |-> Coroutine(k, ro, 0)]]

InitLoopBody ==
    /\ prog = "openloop" /\ ScriptDefaults
    /\ seqs \in [power : 1..MaxSeqLen, flow : 1..MaxSeqLen]
    /\ \E ro \in [FlagNames -> BOOLEAN] :
         /\ AllocError(ro, InitialResults(ro)) = ""
         /\ runOpts = AfterAlloc(ro, InitialResults(ro))
         /\ tasks = InitialResults(ro)
         /\ save = [n \in ContainerNames |->
                      IF n \in AllocNames(ro, InitialResults(ro))
                      THEN Allocated(Niter(seqs)) ELSE Unallocated]
         /\ badTimes = [alloc |-> ro.saveData, list |-> <<>>]
    /\ pc = "ol_measure"
    /\ err = ""
    /\ i = 0
    /\ clock = 0 /\ runTime = 0 /\ slept = 0
    /\ nAcq = 1
    /\ am = "returned"
    /\ out = NoLocals
    /\ sent = <<>>
    /\ files = NoFiles
    /\ IoDefaults

NextLoopBody == NextMeasure \/ OL_Assemble

SpecLoopBody == InitLoopBody /\ [][NextLoopBody]_vars

---------------------------------------------------------------------------
(* One measurement of the loop with only the microcontroller enabled, its  *)
(* coroutine run line by line.                                             *)

InitDecoder ==
    /\ prog = "openloop" /\ ScriptDefaults /\ IoDefaults
    /\ runOpts = [n \in FlagNames |-> n = "collectEmbedded"]
    /\ seqs = [power |-> 1, flow |-> 1]
    /\ tasks = InitialResults(runOpts)
    /\ save = [n \in ContainerNames |-> Unallocated]
    /\ badTimes = [alloc |-> FALSE, list |-> <<>>]
    /\ pc = "ol_measure"
    /\ err = ""
    /\ i = 0
    /\ clock = 0 /\ runTime = 0 /\ slept = 0
    /\ nAcq = 1
    /\ am = "returned"
    /\ out = NoLocals
    /\ sent = <<>>
    /\ files = NoFiles

NextDecoder ==
    \/ AM_Start
    \/ \E k \in 0..2 : TaskRun(k)
    \/ EmbRead
    \/ AM_Return

SpecDecoder == InitDecoder /\ [][NextDecoder]_vars

\* the same measurement in a later iteration: prevTime is the timestamp of
\* an earlier sample (utils/experiments.py:264)
InitDecoderLater ==
    /\ prog = "openloop" /\ ScriptDefaults
    /\ \E prevT \in PrevTimes \ {0} : prevTime = [val |-> Val(prevT), by |-> "argument"]
    /\ latMax = 0 /\ touched = {} /\ serial = NoSerial
    /\ runOpts = [n \in FlagNames |-> n = "collectEmbedded"]
    /\ seqs = [power |-> 1, flow |-> 1]
    /\ tasks = InitialResults(runOpts)
    /\ save = [n \in ContainerNames |-> Unallocated]
    /\ badTimes = [alloc |-> FALSE, list |-> <<>>]
    /\ pc = "ol_measure"
    /\ err = ""
    /\ i = 0
    /\ clock = 0 /\ runTime = 0 /\ slept = 0
    /\ nAcq = 1
    /\ am = "returned"
    /\ out = NoLocals
    /\ sent = <<>>
    /\ files = NoFiles

SpecDecoderLater == InitDecoderLater /\ [][NextDecoder]_vars

---------------------------------------------------------------------------
(* Claims *)

RowsOf(list, name) == SelectSeq(list, LAMBDA r : r.row = name)
\* n rows, the k-th read (or generated) in iteration k - 1
InOrder(rows, n) == Len(rows) = n /\ \A k \in 1..n : rows[k].acq = k - 1
\* n cells, the k-th holding field f of device d's measurement of iteration k - 1
CellsInOrder(c, n, d, f) ==
    /\ c.alloc /\ Len(c.cells) = n
    /\ \A k \in 1..n : c.cells[k] = Cell(Reading(d, k, f))

\* C1: a run that completes normally with N iterations has stored exactly N
\* per-iteration records, the k-th being the record of index k - 1 (no index
\* skipped or repeated), also after an overrun iteration.
C1_ExactlyNRecords ==
    pc = "done" =>
        IF prog \in Scripts
        THEN /\ i = cfg.n_iterations
             /\ cfg.collect_spec =>
                    InOrder(RowsOf(spec_list, "intensities"), cfg.n_iterations)
             /\ cfg.collect_osc =>
                    \A c \in {"A", "B", "C"} : InOrder(RowsOf(osc_list, c), cfg.n_iterations)
        ELSE /\ i = Niter(seqs)
             /\ CellsInOrder(save["Tsave"], Niter(seqs), 1, 0)
             /\ CellsInOrder(save["Isave"], Niter(seqs), 2, 0)

\* run_open_loop completed two iterations or more, the first an overrun
C1_Witness ==
    /\ pc = "done" /\ prog = "openloop"
    /\ Niter(seqs) >= 2
    /\ badTimes.list # <<>> /\ badTimes.list[1] = 0

\* C2: async_measure has returned only when all four of its tasks have
\* finished, and no task is ever cancelled.
C2_Barrier ==
    /\ am = "returned" => \A k \in TaskIds : tasks[k].st \in {"done", "raised"}
    /\ \A k \in TaskIds : tasks[k].st # "cancelled"

\* async_measure returned in the loop with every device in use
C2_Witness ==
    /\ am = "returned" /\ pc = "ol_assemble"
    /\ \A k \in TaskIds : DeviceUsed(k, runOpts) /\ tasks[k].st = "done"

\* an iteration's measurement has been started (the initial measurement of
\* line 174 is the first call of async_measure)
InCadenceLoop == prog = "openloop" /\ nAcq >= 2

\* C3: an exception raised by a device's acquisition coroutine during an
\* iteration never reaches the cadence loop: the siblings complete and the
\* failing device's result is delivered as None instead of being re-raised.
C3_NoDeviceExceptionInLoop ==
    InCadenceLoop => ~(pc = "crashed" /\ err = "DeviceError")

\* C4: for every combination of the enable flags every iteration assembles
\* its record without raising: a disabled device gives a placeholder, never
\* an exception.
C4_AssemblesForAllFlags ==
    InCadenceLoop => ~(pc = "crashed" /\ err = "TypeError")

C6_Pacing ==
    (pc \in {"loop_head", "ol_loop_head"} /\ i > 0) =>
        /\ runTime < samplingTime => slept = samplingTime - runTime /\ clock = samplingTime
        /\ runTime > samplingTime => slept = 0 /\ clock = runTime

\* a script iteration that took less than the period has just been paced
C6_Witness ==
    /\ pc = "loop_head" /\ i > 0 /\ i < cfg.n_iterations
    /\ runTime > 0 /\ runTime < samplingTime /\ slept > 0

\* C7: iteration i - 1 of run_open_loop is in badTimes exactly when its
\* measured duration exceeded the sampling period.
C7_OverrunIffExceeded ==
    (pc = "ol_loop_head" /\ i > 0 /\ runOpts.saveData) =>
        ((\E j \in 1..Len(badTimes.list) : badTimes.list[j] = i - 1)
            <=> runTime > samplingTime)

\* the indices below n at which a backup is due
ExpectedBackups(n) == [j \in 1..((n + BackupEvery - 1) \div BackupEvery) |-> BackupEvery * (j - 1)]
\* the number of iterations whose backup step has been passed
BackupStepsDone == IF pc = "pace" THEN i + 1 ELSE i

\* C8: with save_backup the periodic backup runs in exactly the iterations
\* with i % 10 = 0, after the data of iteration i was appended, so that it
\* holds the data of iterations 0..i; a run of 1 <= N <= 10 iterations backs
\* up exactly once, at index 0.
C8_PeriodicBackup ==
    /\ pc \notin {"crashed", "interrupted"} =>
        backupLog = IF cfg.save_backup THEN ExpectedBackups(BackupStepsDone) ELSE <<>>
    /\ (pc = "pace" /\ cfg.save_backup /\ i % 10 = 0) =>
        /\ cfg.collect_spec =>
            /\ h5.spec = Written(spec_list)
            /\ InOrder(RowsOf(h5.spec.rows, "intensities"), i + 1)
        /\ cfg.collect_osc =>
            /\ h5.osc = Written(osc_list)
            /\ \A c \in {"A", "B", "C"} : InOrder(RowsOf(h5.osc.rows, c), i + 1)
    /\ (pc = "done" /\ cfg.save_backup /\ cfg.n_iterations \in 1..10) => backupLog = <<0>>

\* the second periodic backup, at index 10, has just been written
C8_Witness ==
    /\ pc = "pace" /\ i = 10 /\ backupLog = <<0, 10>>
    /\ cfg.collect_spec /\ cfg.collect_osc
    /\ h5.spec.written /\ Len(RowsOf(h5.spec.rows, "intensities")) = 11

\* the devices a script reads in each iteration
DevicesRead == (IF cfg.collect_osc /\ ~cfg.TEST THEN 1 ELSE 0)
               + (IF cfg.collect_spec /\ ~cfg.TEST THEN 1 ELSE 0)

\* C9: on normal completion the final flush holds the data of all N
\* iterations, the oscilloscope is stopped and closed only after that flush,
\* and no acquisition happens after it.
C9_FinalFlushThenClose ==
    /\ pc = "done" =>
        /\ cfg.collect_spec =>
            /\ csv.spec = Written(spec_list) /\ h5.spec = Written(spec_list)
            /\ InOrder(RowsOf(csv.spec.rows, "intensities"), cfg.n_iterations)
        /\ cfg.collect_osc =>
            /\ csv.osc = Written(osc_list) /\ h5.osc = Written(osc_list)
            /\ \A c \in {"A", "B", "C"} : InOrder(RowsOf(csv.osc.rows, c), cfg.n_iterations)
        /\ cfg.collect_osc /\ ~cfg.TEST => oscDev = "closed"
    /\ oscDev = "closed" =>
        /\ pc = "done"
        /\ csv.osc.written
        /\ cfg.collect_spec => csv.spec.written
    /\ pc \in {"final_spec", "final_osc", "close", "done"} =>
        nAcq = cfg.n_iterations * DevicesRead

\* a run of two iterations or more on both devices completed and closed
\* the oscilloscope
C9_Witness ==
    /\ pc = "done" /\ oscDev = "closed"
    /\ cfg.n_iterations >= 2 /\ cfg.collect_spec
    /\ csv.spec.written /\ csv.osc.written

\* C10: when the run is interrupted after the cadence loop has started, the
\* final flush of the records accumulated so far has been performed when the
\* program ends.
C10_FlushOnInterrupt ==
    pc = "interrupted" =>
        IF prog \in Scripts
        THEN /\ (cfg.collect_spec /\ spec_list # <<>>) => csv.spec = Written(spec_list)
             /\ (cfg.collect_osc /\ osc_list # <<>>) => csv.osc = Written(osc_list)
        ELSE (i > 0) => files.npy.written

\* the line is one readline returned and decode('ascii') accepted
Decodable ==
    /\ serial.kind \in {"intact", "flipped"}
    /\ \A k \in 1..Len(serial.line) : serial.line[k] < 128

\* the decimal integer after the last comma of the line equals the CRC-8 of
\* the bytes before that comma followed by one NUL byte
PassesCheck(line) ==
    LET commas == {k \in 1..Len(line) : line[k] = Comma}
        lc == IF commas = {} THEN 0 ELSE CHOOSE k \in commas : \A j \in commas : j <= k
        last == SubSeq(line, lc + 1, Len(line))
        before == SubSeq(line, 1, lc - 1)
    IN /\ IntOf(last).ok
       /\ IntOf(last).v = crc8(before \o <<NUL>>)

\* C11: is_line_valid accepts a line exactly when the decimal integer in its
\* last comma-separated field equals the CRC-8 (Maxim) of the preceding
\* fields joined with commas, followed by one NUL byte.
C11_ValidIffCrcMatches ==
    Decodable => (is_line_valid(serial.line) = "True" <=> PassesCheck(serial.line))

\* the intact frame of 15 fields was read and is_line_valid accepted it
C11_Witness ==
    /\ serial.kind = "intact" /\ serial.frame = FullFrame
    /\ is_line_valid(serial.line) = "True"

\* the line last read passed is_line_valid and the coroutine returned a sample
LineAccepted ==
    /\ Decodable /\ is_line_valid(serial.line) = "True"
    /\ tasks[3].st = "done" /\ ~tasks[3].res.none
\* the line last read did not pass is_line_valid and gave no sample
LineRejected ==
    /\ Decodable => is_line_valid(serial.line) # "True"
    /\ tasks[3].st = "pending"
\* the first field of the data string is a number
NumericFirst(d) == FloatOf(Split(d)[1]).ok

FieldOfColumn ==
    [t_emb |-> 0, Vp2p |-> 1, f |-> 2, q |-> 3, dsep |-> 4, duty |-> 5, Isemb |-> 6,
     V_emb |-> 7, T_emb |-> 8, I_emb |-> 9, x_pos |-> 10, y_pos |-> 11, Pset |-> 13,
     P_emb |-> 14]
\* the line has the 15 fields of a frame before its CRC, and those that
\* are read are numbers
WellFormed(line) ==
    LET data == Split(line)
    IN /\ Len(data) >= 16
       /\ \A c \in DOMAIN FieldOfColumn : FloatOf(data[FieldOfColumn[c] + 1]).ok

\* C13: on an accepted frame the returned array has one entry per column of
\* the embedded-data export, in the order of the header, and the entry of a
\* column is the field at the position of its quantity (field 12 is in none).
C13_FieldsByPosition ==
    (Decodable /\ is_line_valid(serial.line) = "True" /\ WellFormed(serial.line)) =>
        /\ tasks[3].st = "done" /\ ~tasks[3].res.none
        /\ Len(tasks[3].res.v) = Len(EmbHeader)
        /\ \A k \in 1..Len(EmbHeader) :
            tasks[3].res.v[k] =
                Val(FloatOf(Split(serial.line)[FieldOfColumn[EmbHeader[k]] + 1]).v)

\* the intact frame of 15 fields was decoded: the intensity, second in the
\* array, is field 6 of the frame
C13_Witness ==
    /\ serial.kind = "intact" /\ serial.frame = FullFrame
    /\ tasks[3].st = "done" /\ ~tasks[3].res.none
    /\ tasks[3].res.v[2] = Val(16)

\* the line last read passed is_line_valid
PassedCheck == Decodable /\ is_line_valid(serial.line) = "True"
\* the line last read passed is_line_valid and its first field is a number
Usable == PassedCheck /\ FloatOf(Split(serial.line)[1]).ok

\* C14 as stated: the coroutine returns a sample on the first line that
\* passes the check, and discards a line that does not.
C14_ReturnsOnFirstPassingLine ==
    serial.reads > 0 => (tasks[3].st = "done" <=> PassedCheck)

\* C14: the coroutine never raises to its caller; it discards, with no
\* sample, every line that fails validation (and every line whose first
\* field is no number) and returns one sample, with the timestamp of the
\* line, on the first line that passes the check and has a numeric first
\* field.
C14_DiscardsUntilUsable ==
    /\ tasks[3].st # "raised"
    /\ serial.reads > 0 => (tasks[3].st = "done" <=> Usable)
    /\ (serial.reads > 0 /\ ~PassedCheck) => tasks[3].st = "pending"
    /\ (serial.reads > 0 /\ tasks[3].st = "done") =>
        /\ ~tasks[3].res.none
        /\ Len(tasks[3].res.v) = Len(ReturnOrder)
        /\ tasks[3].res.v[1] = Val(FloatOf(Split(serial.line)[1]).v)

\* two lines were consumed: the first was discarded and the second, the
\* intact frame of 15 fields, gave the sample
C14_Witness ==
    /\ serial.reads = 2 /\ serial.lines = 2
    /\ serial.kind = "intact" /\ serial.frame = FullFrame
    /\ tasks[3].st = "done" /\ tasks[3].res.v[1] = Val(10)

\* C15 as stated: the coroutine is still retrying only while no line that
\* passes validation has arrived.
C15_RetriesOnlyWithoutPassingLine ==
    (am = "waiting" /\ serial.reads > 0 /\ tasks[3].st = "pending") => ~PassedCheck

\* C15: there is no retry bound.  However many lines were read, while none
\* passed validation with a numeric first field (every readline raising
\* included) the coroutine is pending, can read again, and async_measure has
\* not returned; it returns only after such a line.
C15_NoRetryBound ==
    /\ (serial.reads > 0 /\ ~Usable) =>
        /\ tasks[3].st = "pending"
        /\ am = "waiting"
        /\ ENABLED EmbRead
    /\ (serial.reads > 0 /\ am = "returned") => Usable /\ tasks[3].st = "done"

\* every readline raised, as often as is counted, and the coroutine is
\* still pending inside async_measure
C15_Witness ==
    /\ serial.reads = MaxReads /\ serial.lines = 0 /\ serial.kind = "raised"
    /\ tasks[3].st = "pending" /\ am = "waiting"

\* C16: within one async_measure call the device acquisitions overlap, so
\* the time the barrier takes is the largest device latency, not their sum.
C16_LatencyIsMax ==
    (prog = "openloop" /\ pc = "ol_assemble" /\ am = "returned") => clock = latMax

\* the collect flag of the device of task k
CollectFlag(k) ==
    CASE k = 0 -> runOpts.collectData
      [] k = 1 -> runOpts.collectData
      [] k = 2 -> runOpts.collectOscMeas
      [] k = 3 -> runOpts.collectEmbedded

\* C17: a coroutine whose collect flag is false returns None at once and
\* performs no operation on its device.
C17_DisabledReturnsNone ==
    /\ \A k \in TaskIds :
        ~CollectFlag(k) =>
            /\ k \notin touched
            /\ tasks[k].st # "raised"
            /\ tasks[k].st = "done" => tasks[k].res.none
    /\ (pc = "ol_assemble" /\ \A k \in TaskIds : ~CollectFlag(k)) => clock = 0

\* a measurement of the loop returned with the oscilloscope and the
\* microcontroller disabled and the other two devices read
C17_Witness ==
    /\ pc = "ol_assemble" /\ am = "returned"
    /\ runOpts.collectData /\ ~runOpts.collectOscMeas /\ ~runOpts.collectEmbedded
    /\ tasks[2].st = "done" /\ tasks[3].st = "done"
    /\ touched = {0, 1}

\* C18: every call site of async_measure passes the devices in the order of
\* its parameters, so the call binds and each result is read from the
\* position of its device's task; no script fails on the call.
C18_CallSitesAgree ==
    prog \in Scripts => ~(pc = "crashed" /\ err = "TypeError")

\* C19: when the acquisition of iteration i (i > 0) is started, every task of
\* iteration i - 1 has finished and the data of iteration i - 1 has been
\* appended (and backed up when due); nothing of iteration i is stored yet.
C19_SequentialIterations ==
    /\ (prog \in Scripts /\ pc = "collect" /\ i > 0) =>
        /\ cfg.collect_spec => InOrder(RowsOf(spec_list, "intensities"), i)
        /\ cfg.collect_osc =>
               \A c \in {"A", "B", "C"} : InOrder(RowsOf(osc_list, c), i)
        /\ (cfg.save_backup /\ (i - 1) % 10 = 0) =>
            /\ backupLog # <<>> /\ backupLog[Len(backupLog)] = i - 1
            /\ cfg.collect_spec => h5.spec = Written(spec_list)
            /\ cfg.collect_osc => h5.osc = Written(osc_list)
    /\ (prog = "openloop" /\ pc = "ol_measure" /\ i > 0) =>
        /\ am # "waiting" => \A k \in TaskIds : tasks[k].st \in {"done", "raised"}
        /\ Len(sent) = i
        /\ runOpts.saveData =>
            /\ save["Tsave"].cells[i] = Cell(Reading(1, i, 0))
            /\ ~save["Tsave"].cells[i + 1].set

\* the measurement of iteration 1 of run_open_loop is under way
C19_Witness ==
    /\ prog = "openloop" /\ pc = "ol_measure" /\ am = "waiting" /\ i = 1
    /\ runOpts.saveData /\ tasks[0].st = "done"

\* C20: the watermark prevTime is written only inside async_get_emb, never
\* by the cadence loop.
C20_WatermarkOnlyInDecoder == prevTime.by # "run_open_loop"

\* C21: the oscilloscope is stopped and closed on every path that ends the
\* run: a run that acquired from the device and then ended in a fault raised
\* during the loop does not leave the device open
C21_ClosedOnEveryEnd ==
    (/\ prog \in Scripts /\ cfg.collect_osc /\ ~cfg.TEST
     /\ pc = "crashed" /\ i < cfg.n_iterations /\ nAcq > 0)
        => oscDev = "closed"

\* C22: when a setup step of the oscilloscope (open, channels, buffers,
\* trigger, timebase) reports a status other than PICO_OK, the run ends with
\* the error raised before the loop and no iteration executes
C22_SetupFailureRaised ==
    (prog \in Scripts /\ pc # "connect" /\ status \cap SetupKeys # {})
        => (pc = "crashed" /\ err = "PicoError" /\ i = 0 /\ nAcq = 0)


\* C23: when the thermal camera yields no frame (the queue returns None or
\* times out) async_get_temp returns instead of raising or terminating the
\* process: the temperature task never ends raised and SystemExit never ends
\* the run
C23_NoFrameReturnsUnavailable ==
    prog = "openloop" => (~Raised(tasks[0]) /\ err # "SystemExit")

\* C24: every container exported into exp_data was allocated at the start
\* of the run, for every combination of the collect and save flags
C24_ExportedWasAllocated ==
    (prog = "openloop" /\ pc = "ol_export")
        => (badTimes.alloc /\ \A n \in ExportNames(runOpts) : save[n].alloc)

\* the names the interface accepts: one letter 'A'..'D' or 'CH_A'..'CH_D'
ValidNames == {<<l>> : l \in Letters} \cup {NamePrefix \o <<l>> : l \in Letters}

\* the channel a valid name of either form stands for
LetterOf(name) == name[Len(name)]

\* the channel dictionary or buffer dictionary the call under way took last
Taken(fn) == prog = "oscilloscope" /\ osc.call.fn = fn /\ osc.call.item.name # <<>>

\* C25: a channel dictionary that gives only a (valid) name is configured
\* without an error of set_channels, every missing setting replaced by its
\* predefined default
C25_NameOnlyUsesDefaults ==
    (Taken("set_channels") /\ osc.call.item.name \in ValidNames /\ osc.call.item.given = {})
        => /\ err \in {"", "PicoError"}
           /\ Len(osc.call.args) = 5
           /\ osc.call.args[1] = LetterOf(osc.call.item.name)
           /\ \A n \in 1..4 : osc.call.args[n + 1][2] \in BoundDefaults

\* C26: set_channels and set_data_buffers resolve the one-letter form and the
\* CH_ form of a name to the same channel and reject every other name with an
\* error (a channel dictionary is taken with its range given)
C26_BothNameForms ==
    (/\ Taken("set_channels") \/ Taken("set_data_buffers")
     /\ osc.call.fn = "set_channels" => "range" \in osc.call.item.given)
        => IF osc.call.item.name \in ValidNames
           THEN err \in {"", "PicoError"} /\ osc.call.args[1] = LetterOf(osc.call.item.name)
           ELSE pc = "crashed" /\ err \notin {"", "PicoError"}

\* C27: with TEST True a run of run_manual.py executes all n_iterations
\* iterations on dummy data and never operates on a spectrometer or
\* oscilloscope device, whatever the value of async_collection
C27_TestRunsAllIterations ==
    (prog = "manual" /\ cfg.TEST /\ cfg.n_iterations > 0)
        => /\ pc # "crashed"
           /\ nAcq = 0
           /\ pc = "done" => i = cfg.n_iterations

\* the length of the shorter input sequence
ShorterLen == IF seqs.power <= seqs.flow THEN seqs.power ELSE seqs.flow

\* the input commands sent so far
InputsSent == SelectSeq(sent, LAMBDA c : c.kind = "inputs")

AfterLoopPcs == {"ol_shutoff", "ol_export", "ol_csv", "done"}

\* C28: run_open_loop executes exactly min(len(power_seq), len(flow_seq))
\* iterations, and iteration i sends exactly one input command, the pair
\* power_seq[i], flow_seq[i], after the measurements of iteration i have been
\* stored and before the pacing sleep
C28_OneCommandPerIteration ==
    prog = "openloop" =>
        /\ i <= ShorterLen
        /\ pc \in AfterLoopPcs => i = ShorterLen
        /\ \A k \in 1..Len(InputsSent) :
               InputsSent[k] = [kind |-> "inputs", power |-> k - 1, flow |-> k - 1]
        /\ pc \in {"ol_loop_head", "ol_measure", "ol_assemble", "ol_send"} \cup AfterLoopPcs
               => Len(InputsSent) = i
        /\ pc = "ol_pace" =>
               /\ Len(InputsSent) = i + 1
               /\ slept = 0
               /\ \A n \in ContainerNames : save[n].alloc => save[n].cells[i + 1].set
        /\ pc \in {"crashed", "interrupted"} => Len(InputsSent) \in {i, i + 1}

\* a run with more power inputs than flow inputs has completed
C28_Witness ==
    /\ prog = "openloop" /\ pc = "done"
    /\ seqs.power > seqs.flow /\ i = seqs.flow
    /\ Len(InputsSent) = i

\* the shut-off commands sent so far
ShutoffsSent == SelectSeq(sent, LAMBDA c : c.kind = "shutoff")

\* something of the experimental data has been written to disk
DataSaved == files.npy.written \/ files.csv # {}

\* C29: on normal completion the shut-off command (power 0, flow 0, duty
\* cycle 100) is sent exactly once, after the input command of the last
\* iteration and before any experimental data is saved
C29_ShutoffOnceBeforeSave ==
    prog = "openloop" =>
        /\ Len(ShutoffsSent) <= 1
        /\ pc = "done" => Len(ShutoffsSent) = 1
        /\ DataSaved => Len(ShutoffsSent) = 1
        /\ Len(ShutoffsSent) = 1 =>
               /\ sent[Len(sent)] = [kind |-> "shutoff", power |-> 0, flow |-> 0, duty |-> 100]
               /\ Len(InputsSent) = ShorterLen
        /\ pc = "ol_export" => Len(ShutoffsSent) = 1 /\ ~DataSaved

\* a run of two iterations has completed and saved its data
C29_Witness ==
    /\ prog = "openloop" /\ pc = "done" /\ i = 2
    /\ DataSaved /\ Len(sent) = 3

\* run_open_loop has ended with an exception
Aborted == {"crashed", "interrupted"}

\* C30: when run_open_loop aborts with an exception during the loop, no
\* shut-off command has been or is sent and no data is persisted (neither the
\* .npy file nor a CSV file); the run does nothing more, so the inputs sent
\* last remain applied
C30_AbortLeavesInputsApplied ==
    [][prog = "openloop" =>
          /\ pc \notin Aborted
          /\ (pc \in OLLoopPcs /\ pc' \in Aborted) =>
                 /\ ShutoffsSent' = <<>>
                 /\ ~DataSaved'
                 /\ sent' = sent]_vars

\* a device exception has aborted iteration 1 after the inputs of iteration
\* 0 were sent
C30_Witness ==
    /\ prog = "openloop" /\ pc = "crashed" /\ err = "DeviceError"
    /\ i = 1 /\ Len(sent) = 1 /\ sent[1].kind = "inputs"
    /\ ~DataSaved

\* C31 as stated: every sample async_get_emb returns has all of its 14
\* values parsed from the line it accepted; a line that passes the check but
\* has a missing or non-numeric field gives no sample, so no returned value
\* is a default of lines 196-205.
C31_SampleFromOneLine ==
    (serial.reads > 0 /\ tasks[3].st = "done") =>
        /\ WellFormed(serial.line)
        /\ \A k \in 1..Len(EmbHeader) :
            tasks[3].res.v[k] =
                Val(FloatOf(Split(serial.line)[FieldOfColumn[EmbHeader[k]] + 1]).v)

\* C32: a call of set_data_buffers fails exactly when the channels have not
\* been set or the number of buffers differs from the number of configured
\* channels; the failing call raises before its loop, so it registers no
\* buffer with the driver and leaves buffers_info and the buffer lists (and
\* channels_info) as they were.
C32_RejectedCallRegistersNothing ==
    [][(/\ prog = "oscilloscope" /\ pc \in {"osc_new", "osc_chset"}
        /\ osc'.call.fn = "set_data_buffers")
        => /\ pc' = "crashed" <=>
                \/ osc.channels_info.none
                \/ osc'.call.left # Len(osc.channels_info.v)
           /\ pc' # "crashed" => pc' = "set_data_buffers" /\ err' = ""
           /\ pc' = "crashed" =>
                /\ err' = "RuntimeError"
                /\ status' = status
                /\ osc'.call.seen = <<>> /\ osc'.call.args = <<>>
                /\ osc'.buffers_info = osc.buffers_info
                /\ osc'.buffer_maxes = osc.buffer_maxes
                /\ osc'.channels_info = osc.channels_info
                /\ osc'.channel_datas = osc.channel_datas]_vars

\* two channels were set and a call with one buffer was rejected: no buffer
\* list was created and the channels are still there
C32_Witness ==
    /\ prog = "oscilloscope" /\ pc = "crashed" /\ err = "RuntimeError"
    /\ osc.call.fn = "set_data_buffers" /\ osc.call.left = 1
    /\ ~osc.channels_info.none /\ Len(osc.channels_info.v) = 2
    /\ osc.buffers_info.none /\ osc.buffer_maxes.none

\* C33: once set_channels has returned, channel_datas has one entry per
\* configured channel, in the same order and with the same name, before and
\* after every collect_data_block and collect_data_streaming call, and no
\* name assertion of those methods or of the script's loop fails.
C33_ChannelDatasAligned ==
    prog = "oscilloscope" =>
        /\ err # "AssertionError"
        /\ osc.channels_info.none <=> osc.channel_datas.none
        /\ Len(osc.channel_datas.v) = Len(osc.channels_info.v)
        /\ \A k \in 1..Len(osc.channels_info.v) :
            osc.channel_datas.v[k].name = osc.channels_info.v[k]
        /\ pc = "osc_collected" =>
            \A k \in 1..Len(osc.channel_datas.v) : osc.channel_datas.v[k].data # ""

\* channels CH_A and B were set and a collect call returned: both entries
\* hold its data, in millivolts, under the names as given
C33_Witness ==
    /\ prog = "oscilloscope" /\ pc = "osc_collected"
    /\ osc.channels_info.v = <<NamePrefix \o <<"A">>, <<"B">>>>
    /\ osc.channel_datas.v = <<[name |-> NamePrefix \o <<"A">>, data |-> "mV"],
                               [name |-> <<"B">>, data |-> "mV"]>>

\* the poll loop of the call under way has ended
LoopOver == osc.stream.nextSample >= total_buff_size \/ osc.stream.autoStopOuter

\* C34: the poll loop of collect_data_streaming exits exactly when nextSample
\* has reached total_buff_size or the callback has reported autoStop, and
\* never before the driver has called back; when the driver keeps delivering
\* samples or reports autoStop, every call whose poll loop started ends: it
\* returns, or ps2000aMaximumValue reports an error after the loop.
C34_PollLoopExit ==
    /\ [][(prog = "streaming" /\ pc = "poll") =>
            /\ pc' = "convert" <=> LoopOver
            /\ pc' = "latest" <=> ~LoopOver]_vars
    /\ [](prog = "streaming" /\ pc = "convert" => osc.driver.called /\ LoopOver)
    /\ [](prog = "streaming" /\ pc \in {"poll", "latest"} /\ ~osc.driver.called
            => ~LoopOver)
    /\ (prog = "streaming" /\ pc = "poll") ~>
            (pc = "stream_idle" \/ (pc = "crashed" /\ "maximumValue" \in status))

\* a call returned after the driver reported autoStop before the capture
\* buffer was full
C34_Witness ==
    /\ prog = "streaming" /\ pc = "stream_idle"
    /\ osc.stream.autoStopOuter /\ osc.stream.nextSample < total_buff_size
    /\ osc.channel_datas.v[1].data = "mV"

\* the samples 1..n in order, then the zeros of a fresh buffer
FilledTo(n) == [k \in 1..total_buff_size |-> IF k <= n THEN k ELSE 0]

\* C35: from initialize_streaming on, nextSample equals the number of samples
\* the callbacks delivered since then (0 with fresh buffers before the first
\* callback), never exceeds total_buff_size, and every channel's complete
\* buffer holds the delivered chunks contiguously in delivery order, the rest
\* still zero.
C35_FilledInOrder ==
    (prog = "streaming" /\ osc.stream.complete_buffers # <<>>) =>
        /\ osc.stream.nextSample = osc.driver.sent
        /\ osc.stream.nextSample <= total_buff_size
        /\ ~osc.driver.called => osc.stream.nextSample = 0
        /\ Len(osc.stream.complete_buffers) = Len(osc.channels_info.v)
        /\ \A c \in DOMAIN osc.stream.complete_buffers :
            osc.stream.complete_buffers[c] = FilledTo(osc.stream.nextSample)

\* in a second call the capture buffer was filled to its capacity, the last
\* sample taken from the end of the registered buffer
C35_Witness ==
    /\ prog = "streaming" /\ pc = "convert"
    /\ osc.channel_datas.v[1].data = "mV"
    /\ osc.stream.nextSample = total_buff_size
    /\ osc.stream.complete_buffers[1][total_buff_size] = total_buff_size
    /\ osc.driver.buffer[SingleBuffSize] = total_buff_size
    /\ ~osc.stream.autoStopOuter

\* C36: in run_with_sig_gen set_signal is called at most once, at the start
\* of iteration 1: when it is called iteration 0 has been acquired and its
\* rows are the only ones stored, nothing of the signal generator happens
\* during iteration 0, and the acquisition of every iteration i >= 1 starts
\* only after set_signal has returned successfully.
C36_SignalOnceBeforeIterationOne ==
    prog = "siggen" =>
        /\ sigGen <= 1
        /\ i = 0 => sigGen = 0 /\ "sig_gen" \notin status /\ pc # "set_signal"
        /\ pc = "set_signal" =>
            /\ i = 1 /\ sigGen = 0
            /\ osc_list = (IF cfg.collect_osc THEN OscRows(prog, cfg.TEST, 0, 0) ELSE <<>>)
            /\ spec_list = (IF cfg.collect_spec THEN SpecRows(prog, cfg.TEST, 0, 0) ELSE <<>>)
            /\ (cfg.collect_osc /\ ~cfg.TEST) => meas.osc = 0
        /\ (i >= 1 /\ pc \in {"collect", "append", "backup", "pace"}) => sigGen = 1
        /\ (meas.osc >= 1 \/ meas.spec >= 1) => sigGen = 1
        /\ (i >= 2 /\ pc # "crashed") => sigGen = 1
        /\ "sig_gen" \in status => pc = "crashed" /\ err = "PicoError" /\ i = 1 /\ sigGen = 0

\* iteration 2 is about to be acquired from the devices: the signal was set
\* once, after the background, and iterations 0 and 1 are stored
C36_Witness ==
    /\ prog = "siggen" /\ pc = "collect" /\ i = 2
    /\ cfg.collect_osc /\ ~cfg.TEST
    /\ sigGen = 1 /\ meas.osc = 1
    /\ osc_list = OscRows(prog, FALSE, 0, 0) \o OscRows(prog, FALSE, 1, 1)

\* the pixel a direction reads: the one n_pix away when it lies inside the
\* image, else the centre pixel data[y, x]
OffsetOrCentre(row, col, y, x) ==
    IF row \in 0..(Height - 1) /\ col \in 0..(Width - 1) THEN <<row, col>> ELSE <<y, x>>

\* C37 as stated: get_avg_spatial_temp returns the mean of four values, one
\* per cardinal direction at offset n_pix from loc = (x, y); a direction
\* whose offset pixel lies outside the 640x480 image uses the centre pixel
\* data[y, x] instead, and no index outside the image is read.
C37_MeanOfFourOrCentre ==
    (prog = "thermal" /\ pc = "spatial_done") =>
        LET n == out.n_pix
            x == out.loc[1]
            y == out.loc[2]
            r == out.avg_temp
        IN /\ r.over = 4
           /\ r.E = OffsetOrCentre(y, x + n, y, x)
           /\ r.W = OffsetOrCentre(y, x - n, y, x)
           /\ r.S = OffsetOrCentre(y + n, x, y, x)
           /\ r.N = OffsetOrCentre(y - n, x, y, x)
           /\ \A d \in {r.E, r.W, r.S, r.N} :
                d[1] \in 0..(Height - 1) /\ d[2] \in 0..(Width - 1)

\* C38: the outcome of async_get_emb does not depend on prevTime: after the
\* same lines, a call with any prevTime has consumed as many lines and
\* returned the same sample as the call with prevTime = 0; a line is never
\* rejected for its timestamp.
C38_IndependentOfPrevTime ==
    (prog = "openloop" /\ serial.reads > 0) =>
        IF serial.kind = "raised" THEN tasks[3].st = "pending"
        ELSE LET ref == Passes[[kind |-> serial.kind, frame |-> serial.frame,
                                flip |-> serial.flip, line |-> serial.line]]
             IN /\ tasks[3].st = "done" <=> ref.ret
                /\ tasks[3].st = "pending" <=> ~ref.ret
                /\ ref.ret => tasks[3].res = Res(ref.sample)

\* called with prevTime = 11, the coroutine returned the sample of the frame
\* whose timestamp is 10, from the first line it read
C38_Witness ==
    /\ prog = "openloop" /\ prevTime.val = Val(11)
    /\ serial.kind = "intact" /\ serial.frame = FullFrame /\ serial.reads = 1
    /\ tasks[3].st = "done" /\ tasks[3].res.v[1] = Val(10)

=============================================================================
